---- MODULE Spec2Model ----
(***************************************************************************)
(* A model of the xHCI USB host-controller driver of rumikan's kernel-lib: *)
(* the producer Ring and the consumer EventRing (usb/ring.rs and           *)
(* usb/trb/ring.rs), the TRB encodings, the bump allocator (usb/mem.rs),   *)
(* the per-slot UsbDevice (usb/devmgr.rs) and the port bring-up state      *)
(* machine of Xhc (usb/mod.rs).                                            *)
(*                                                                         *)
(* A TRB is the tuple <<dword0, dword1, dword2, dword3>> of its four       *)
(* 32-bit words; bit n of the u128 is bit (n % 32) of dword (n \div 32).   *)
(* Every address of the model lies below 2^27, so a 64-bit pointer field   *)
(* has a zero upper dword.                                                 *)
(***************************************************************************)
EXTENDS Integers, Sequences, FiniteSets, TLC

----------------------------------------------------------------------------
(* Bounds of the model *)

\* Root-hub ports of the controller (ports are numbered from 1).
MaxPorts == 2
\* Device slots the hardware may hand out in an EnableSlot completion.
MaxSlots == 2
\* A TransferEvent may point at the first MaxTrbIdx + 1 slots of a transfer ring.
MaxTrbIdx == 4
\* A CommandCompletionEvent may point at the first MaxCmdIdx + 1 slots of the
\* command ring.
MaxCmdIdx == 2

----------------------------------------------------------------------------
(* bit_field::BitField on one 32-bit word *)

GetBits(w, off, len) == (w \div (2 ^ off)) % (2 ^ len)

SetBits(w, off, len, v) ==
    w - GetBits(w, off, len) * (2 ^ off) + (v % (2 ^ len)) * (2 ^ off)

GetBit(w, off) == GetBits(w, off, 1) = 1

SetBit(w, off, b) == SetBits(w, off, 1, IF b THEN 1 ELSE 0)

\* get_bits / set_bits of the u128 for a field that lies inside one dword.
TrbGetBits(t, off, len) == GetBits(t[(off \div 32) + 1], off % 32, len)

TrbSetBits(t, off, len, v) ==
    [t EXCEPT ![(off \div 32) + 1] = SetBits(@, off % 32, len, v)]

TrbGetBit(t, off) == TrbGetBits(t, off, 1) = 1

TrbSetBit(t, off, b) == TrbSetBits(t, off, 1, IF b THEN 1 ELSE 0)

\* set_bits(4..64, ptr >> 4): the low four bits of dword 0 are kept.
TrbSetPtr4(t, ptr) == [t EXCEPT ![1] = SetBits(@, 4, 28, ptr \div 16), ![2] = 0]

\* get_bits(4..64) << 4
TrbGetPtr4(t) == GetBits(t[1], 4, 28) * 16

\* set_bits(0..64, ptr) and get_bits(0..64)
TrbSetPtr(t, ptr) == [t EXCEPT ![1] = ptr, ![2] = 0]

TrbGetPtr(t) == t[1]

ZeroTrb == <<0, 0, 0, 0>>

----------------------------------------------------------------------------
(* usb/ring.rs: the TRB layer the controller and the device manager use *)

TYPE_NORMAL == 1
TYPE_SETUP_STAGE == 2
TYPE_DATA_STAGE == 3
TYPE_STATUS_STAGE == 4
TYPE_LINK == 6
TYPE_ENABLE_SLOT_COMMAND == 9
TYPE_ADDRESS_DEVICE_COMMAND == 11
TYPE_CONFIGURE_ENDPOINT_COMMAND == 12
TYPE_TRANSFER_EVENT == 32
TYPE_COMMAND_COMPLETION_EVENT == 33
TYPE_PORT_STATUS_CHANGE_EVENT == 34

\* Trb::specialize reads the type field, bits 106..112.
TrbType(t) == TrbGetBits(t, 106, 6)

\* Trb::cycle_bit of usb/ring.rs reads bit 65.
TrbCycleBit(t) == TrbGetBit(t, 65)

WithType(type) == TrbSetBits(ZeroTrb, 106, 6, type)

EnableSlotCommandTrbNew == WithType(TYPE_ENABLE_SLOT_COMMAND)

AddressDeviceCommandTrbNew(slot_id, input_context_ptr) ==
    TrbSetBits(TrbSetPtr4(WithType(TYPE_ADDRESS_DEVICE_COMMAND), input_context_ptr),
               120, 8, slot_id)

ConfigureEndpointCommandTrbNew(slot_id, input_context_ptr) ==
    TrbSetBits(TrbSetPtr4(WithType(TYPE_CONFIGURE_ENDPOINT_COMMAND), input_context_ptr),
               120, 8, slot_id)

\* LinkTrb::new leaves toggle_cycle clear; Ring::push sets it.
LinkTrbNew(ring_segment_pointer) == TrbSetPtr4(WithType(TYPE_LINK), ring_segment_pointer)

LinkSetToggleCycle(t, b) == TrbSetBit(t, 97, b)

\* NormalTrb::new().set_pointer(buf).set_transfer_length(len)
\*     .set_interrupt_on_short_packet(true).set_interrupt_on_completion(true)
NormalTrbNew(buf, len) ==
    TrbSetBit(TrbSetBit(TrbSetBits(TrbSetPtr(WithType(TYPE_NORMAL), buf), 64, 17, len),
                        98, TRUE), 101, TRUE)

NormalTransferLength(t) == TrbGetBits(t, 64, 17)

\* RequestType: recipient bits 0..5, type bits 5..7, direction bit 7.
DIRECTION_OUT == 0
DIRECTION_IN == 1
TYPE_STANDARD == 0
TYPE_CLASS == 1
RECIPIENT_DEVICE == 0
RECIPIENT_INTERFACE == 1

RequestTypeNew(direction, type, recipient) ==
    SetBits(SetBits(SetBits(0, 7, 1, direction), 5, 2, type), 0, 5, recipient)

REQUEST_GET_DESCRIPTOR == 6
REQUEST_SET_CONFIGURATION == 9
REQUEST_SET_PROTOCOL == 11

\* SetupData is a u64, here its two dwords: request_type 0..8, request 8..16,
\* value 16..32, index 32..48, length 48..64.
SetupDataNew(request_type, request, value, index, length) ==
    << SetBits(SetBits(SetBits(0, 0, 8, request_type), 8, 8, request), 16, 16, value),
       SetBits(SetBits(0, 0, 16, index), 16, 16, length) >>

SetupDataRequest(sd) == GetBits(sd[1], 8, 8)

TRANSFER_TYPE_NO_DATA_STAGE == 0
TRANSFER_TYPE_OUT_DATA_STAGE == 3
TRANSFER_TYPE_IN_DATA_STAGE == 3

\* SetupStageTrb::from
SetupStageTrbFrom(sd, transfer_type) ==
    LET t0 == WithType(TYPE_SETUP_STAGE)
        t1 == TrbSetBits(t0, 64, 17, 8)
        t2 == TrbSetBit(t1, 102, TRUE)
        t3 == TrbSetBits(t2, 112, 2, transfer_type)
        t4 == TrbSetBits(t3, 0, 8, GetBits(sd[1], 0, 8))
        t5 == TrbSetBits(t4, 8, 8, GetBits(sd[1], 8, 8))
        t6 == TrbSetBits(t5, 16, 16, GetBits(sd[1], 16, 16))
        t7 == TrbSetBits(t6, 32, 16, GetBits(sd[2], 0, 16))
    IN  TrbSetBits(t7, 48, 16, GetBits(sd[2], 16, 16))

\* SetupData::from_trb
SetupDataFromTrb(t) ==
    SetupDataNew(TrbGetBits(t, 0, 8), TrbGetBits(t, 8, 8), TrbGetBits(t, 16, 16),
                 TrbGetBits(t, 32, 16), TrbGetBits(t, 48, 16))

\* DataStageTrb::from(buf, len, is_in).set_interrupt_on_completion(ioc)
DataStageTrbFrom(buf, len, is_in, ioc) ==
    TrbSetBit(TrbSetBit(TrbSetBits(TrbSetPtr(WithType(TYPE_DATA_STAGE), buf), 64, 17, len),
                        112, is_in), 101, ioc)

DataStageTransferLength(t) == TrbGetBits(t, 64, 17)

\* StatusStageTrb::new().set_direction(is_in).set_interrupt_on_completion(ioc)
StatusStageTrbNew(is_in, ioc) ==
    TrbSetBit(TrbSetBit(WithType(TYPE_STATUS_STAGE), 112, is_in), 101, ioc)

\* The fields the handlers read from an event TRB.
TransferEventSlotId(t) == TrbGetBits(t, 120, 8)
TransferEventResidual(t) == TrbGetBits(t, 64, 24)
TransferEventCompletionCode(t) == TrbGetBits(t, 88, 8)
TransferEventTrbPointer(t) == TrbGetPtr(t)
TransferEventEndpointId(t) == TrbGetBits(t, 112, 5)
CommandCompletionTrbPointer(t) == TrbGetPtr4(t)
CommandCompletionSlotId(t) == TrbGetBits(t, 120, 8)
PortStatusChangePortId(t) == TrbGetBits(t, 24, 8)

\* The event TRBs the controller hardware writes (xHCI layout).
HwTransferEvent(slot_id, ep, ptr, code, residual) ==
    TrbSetBits(TrbSetBits(TrbSetBits(TrbSetBits(
        TrbSetPtr(WithType(TYPE_TRANSFER_EVENT), ptr),
        64, 24, residual), 88, 8, code), 112, 5, ep), 120, 8, slot_id)

HwCommandCompletionEvent(slot_id, ptr) ==
    TrbSetBits(TrbSetPtr4(WithType(TYPE_COMMAND_COMPLETION_EVENT), ptr), 120, 8, slot_id)

HwPortStatusChangeEvent(port_id) ==
    TrbSetBits(WithType(TYPE_PORT_STATUS_CHANGE_EVENT), 24, 8, port_id)

----------------------------------------------------------------------------
(* Option<T>: None is the empty set, Some(x) the singleton *)

None == {}
Some(x) == {x}
IsSome(o) == o # {}
Unwrap(o) == CHOOSE x \in o : TRUE

----------------------------------------------------------------------------
(* usb/mem.rs: the bump allocator over the static pool *)

MEMORY_POOL_BYTES == 131072

\* Address of the static MEMORY_POOL (64-byte aligned by its element type).
POOL_BASE == 65536

RECURSIVE BitAnd(_, _)
BitAnd(x, y) ==
    IF x = 0 \/ y = 0 THEN 0
    ELSE (x % 2) * (y % 2) + 2 * BitAnd(x \div 2, y \div 2)

\* ceil: (value + alignment - 1) & !(alignment - 1)
Ceil(value, alignment) ==
    LET s == value + alignment - 1 IN s - BitAnd(s, alignment - 1)

\* allocate storing offset + bytes of the offset it started from, without the
\* padding.
AllocateDropsPadding(offset, bytes, alignment, boundary) ==
    LET o1 == IF IsSome(alignment) THEN Ceil(offset, Unwrap(alignment)) ELSE offset
        next_boundary == Ceil(o1, Unwrap(boundary))
        o2 == IF IsSome(boundary) /\ o1 + bytes > next_boundary
              THEN next_boundary ELSE o1
    IN  IF o2 + bytes <= MEMORY_POOL_BYTES
        THEN [ok |-> TRUE, ptr |-> POOL_BASE + o2, offset |-> offset + bytes]
        ELSE [ok |-> FALSE, ptr |-> 0, offset |-> offset]

\* allocate without the boundary adjustment.
AllocateNoBoundary(offset, bytes, alignment, boundary) ==
    LET o1 == IF IsSome(alignment) THEN Ceil(offset, Unwrap(alignment)) ELSE offset
    IN  IF o1 + bytes <= MEMORY_POOL_BYTES
        THEN [ok |-> TRUE, ptr |-> POOL_BASE + o1, offset |-> o1 + bytes]
        ELSE [ok |-> FALSE, ptr |-> 0, offset |-> offset]

\* allocate storing the adjusted offset when the request does not fit.
AllocateKeepsPadding(offset, bytes, alignment, boundary) ==
    LET o1 == IF IsSome(alignment) THEN Ceil(offset, Unwrap(alignment)) ELSE offset
        next_boundary == Ceil(o1, Unwrap(boundary))
        o2 == IF IsSome(boundary) /\ o1 + bytes > next_boundary
              THEN next_boundary ELSE o1
    IN  IF o2 + bytes <= MEMORY_POOL_BYTES
        THEN [ok |-> TRUE, ptr |-> POOL_BASE + o2, offset |-> o2 + bytes]
        ELSE [ok |-> FALSE, ptr |-> 0, offset |-> o2]

\* allocate aligning to 8 bytes when no alignment is asked for.
AllocateWordAligned(offset, bytes, alignment, boundary) ==
    LET o1 == IF IsSome(alignment) THEN Ceil(offset, Unwrap(alignment))
              ELSE Ceil(offset, 8)
        next_boundary == Ceil(o1, Unwrap(boundary))
        o2 == IF IsSome(boundary) /\ o1 + bytes > next_boundary
              THEN next_boundary ELSE o1
    IN  IF o2 + bytes <= MEMORY_POOL_BYTES
        THEN [ok |-> TRUE, ptr |-> POOL_BASE + o2, offset |-> o2 + bytes]
        ELSE [ok |-> FALSE, ptr |-> 0, offset |-> offset]

\* allocate: the adjusted offset, whether the request fits, the pointer and the
\* pool offset afterwards.
Allocate(offset, bytes, alignment, boundary) ==
    LET o1 == IF IsSome(alignment) THEN Ceil(offset, Unwrap(alignment)) ELSE offset
        next_boundary == Ceil(o1, Unwrap(boundary))
        o2 == IF IsSome(boundary) /\ o1 + bytes > next_boundary
              THEN next_boundary ELSE o1
    IN  IF o2 + bytes <= MEMORY_POOL_BYTES
        THEN [ok |-> TRUE, ptr |-> POOL_BASE + o2, offset |-> o2 + bytes]
        ELSE [ok |-> FALSE, ptr |-> 0, offset |-> offset]

SIZE_OF_TRB == 16
SIZE_OF_DEVICE_CONTEXT == 1024
SIZE_OF_INPUT_CONTEXT == 1056
SIZE_OF_POINTER == 8
SIZE_OF_SEGMENT_TABLE_ENTRY == 16

----------------------------------------------------------------------------
(* usb/ring.rs: the producer Ring (command ring and transfer rings) *)

\* Ring::new
RingNew == [buffer |-> 0, len |-> 0, cycle_bit |-> FALSE, write_index |-> 0,
            mem |-> <<>>]

\* Ring::initialize with the pointer allocate_array returned (zeroed slots).
RingInitialize(ptr, len) ==
    [buffer |-> ptr, len |-> len, cycle_bit |-> TRUE, write_index |-> 0,
     mem |-> [i \in 0..(len - 1) |-> ZeroTrb]]

\* Ring::copy_to_last: the TRB with bit 96 replaced by cycle_bit, written whole.
RingCopyToLast(r, data) ==
    LET msb32 == SetBits(data[4], 0, 1, IF r.cycle_bit THEN 1 ELSE 0)
    IN  [r EXCEPT !.mem[r.write_index] = [data EXCEPT ![4] = msb32]]

\* A push whose Link TRB is left as LinkTrb::new built it.
RingPushNoToggle(r, data) ==
    LET r1 == RingCopyToLast(r, data)
        r2 == [r1 EXCEPT !.write_index = @ + 1]
    IN  IF r2.write_index = r2.len - 1
        THEN LET r3 == RingCopyToLast(r2, LinkTrbNew(r2.buffer))
             IN  [r3 EXCEPT !.write_index = 0, !.cycle_bit = ~@]
        ELSE r2

\* Ring::push: the ring afterwards.
RingPush(r, data) ==
    LET r1 == RingCopyToLast(r, data)
        r2 == [r1 EXCEPT !.write_index = @ + 1]
    IN  IF r2.write_index = r2.len - 1
        THEN LET link == LinkSetToggleCycle(LinkTrbNew(r2.buffer), TRUE)
                 r3 == RingCopyToLast(r2, link)
             IN  [r3 EXCEPT !.write_index = 0, !.cycle_bit = ~@]
        ELSE r2

\* Ring::push: the pointer it returns, the address of the slot written.
RingPushPtr(r) == r.buffer + SIZE_OF_TRB * r.write_index

\* The TRB a pointer into the ring's buffer refers to.
RingInBuffer(r, ptr) ==
    /\ r.len > 0
    /\ ptr >= r.buffer
    /\ ptr < r.buffer + SIZE_OF_TRB * r.len
    /\ (ptr - r.buffer) % SIZE_OF_TRB = 0

RingRead(r, ptr) == r.mem[(ptr - r.buffer) \div SIZE_OF_TRB]

----------------------------------------------------------------------------
(* util.rs: ArrayMap over a fixed array of Option<(K, V)>, here a sequence *)

Min(S) == CHOOSE x \in S : \A y \in S : x <= y

ArrayMapNew(N) == [i \in 1..N |-> None]

ArrayMapHits(m, key) == {i \in DOMAIN m : IsSome(m[i]) /\ Unwrap(m[i])[1] = key}

\* insert: the first slot that holds the key or is empty takes the entry.
ArrayMapInsert(m, key, value) ==
    LET free == {i \in DOMAIN m : m[i] = None \/ Unwrap(m[i])[1] = key}
    IN  IF free = {}
        THEN [ok |-> FALSE, map |-> m]
        ELSE [ok |-> TRUE, map |-> [m EXCEPT ![Min(free)] = Some(<<key, value>>)]]

\* get (and get_mut): the value of the first slot that holds the key.
ArrayMapGet(m, key) ==
    IF ArrayMapHits(m, key) = {} THEN None
    ELSE Some(Unwrap(m[Min(ArrayMapHits(m, key))])[2])

\* remove: elem.take() empties every slot the loop visits, up to and including
\* the first one that holds the key; every slot when no slot holds it.
ArrayMapRemove(m, key) ==
    IF ArrayMapHits(m, key) = {}
    THEN [value |-> None, map |-> [i \in DOMAIN m |-> None]]
    ELSE LET j == Min(ArrayMapHits(m, key))
         IN  [value |-> Some(Unwrap(m[j])[2]),
              map |-> [i \in DOMAIN m |-> IF i <= j THEN None ELSE m[i]]]

ArrayMapKeys(m) == {Unwrap(m[i])[1] : i \in {j \in DOMAIN m : IsSome(m[j])}}

\* What insert returns: Ok(the value the slot taken held) or Err(NoSpace).
ArrayMapInsertReturns(m, key) ==
    LET free == {i \in DOMAIN m : m[i] = None \/ Unwrap(m[i])[1] = key}
    IN  IF free = {} THEN [ok |-> FALSE, value |-> None]
        ELSE [ok |-> TRUE,
              value |-> IF m[Min(free)] = None THEN None
                        ELSE Some(Unwrap(m[Min(free)])[2])]

----------------------------------------------------------------------------
(* util/collection.rs: ArrayMap *)

\* insert: as in util.rs, the first slot that holds the key or is empty.
CollectionInsert(m, key, value) ==
    LET free == {i \in DOMAIN m : m[i] = None \/ Unwrap(m[i])[1] = key}
    IN  IF free = {}
        THEN [ok |-> FALSE, value |-> None, map |-> m]
        ELSE [ok |-> TRUE,
              value |-> IF m[Min(free)] = None THEN None
                        ELSE Some(Unwrap(m[Min(free)])[2]),
              map |-> [m EXCEPT ![Min(free)] = Some(<<key, value>>)]]

\* get: the value of the first slot that holds the key.
CollectionGet(m, key) ==
    LET hits == {i \in DOMAIN m : IsSome(m[i]) /\ Unwrap(m[i])[1] = key}
    IN  IF hits = {} THEN None ELSE Some(Unwrap(m[Min(hits)])[2])

\* remove: the first slot that holds the key is taken, no other slot changes.
CollectionRemove(m, key) ==
    LET hits == {i \in DOMAIN m : IsSome(m[i]) /\ Unwrap(m[i])[1] = key}
    IN  IF hits = {} THEN [value |-> None, map |-> m]
        ELSE [value |-> Some(Unwrap(m[Min(hits)])[2]),
              map |-> [m EXCEPT ![Min(hits)] = None]]

----------------------------------------------------------------------------
(* usb/endpoint.rs *)

ENDPOINT_NUMBER_MAX == 16
ENDPOINT_ID_MAX == 31
DEFAULT_CONTROL_PIPE_ID == 1

EndpointIdFrom(ep_num, dir_in) == ((ep_num * 2) % 256) + (IF dir_in THEN 1 ELSE 0)
EndpointIdIsIn(id) == id % 2 = 1
EndpointIdNumber(id) == id \div 2

----------------------------------------------------------------------------
(* usb/context.rs: the contexts as records of the fields the driver sets *)

SlotContextDefault ==
    [route_string |-> 0, speed |-> 0, context_entries |-> 0, root_hub_port_num |-> 0]

EndpointContextDefault ==
    [endpoint_type |-> 0, max_packet_size |-> 0, max_burst_size |-> 0,
     interval |-> 0, average_trb_length |-> 0, dequeue_cycle_state |-> FALSE,
     max_primary_streams |-> 0, mult |-> 0, error_count |-> 0,
     transfer_ring_buffer |-> 0]

\* add_context_flags is the set of its one bits.
InputContextDefault ==
    [add_context_flags |-> {}, slot_context |-> SlotContextDefault,
     endpoint_contexts |-> [i \in 1..ENDPOINT_ID_MAX |-> EndpointContextDefault]]

DeviceContextDefault == [slot_context |-> SlotContextDefault]

\* InputContext::enable_slot_context and enable_endpoint set a flag bit.
EnableSlotContext(ic) == [ic EXCEPT !.add_context_flags = @ \cup {0}]
EnableEndpoint(ic, dci) == [ic EXCEPT !.add_context_flags = @ \cup {dci}]

----------------------------------------------------------------------------
(* usb/port.rs: PortSpeed *)

FULL_SPEED == 1
LOW_SPEED == 2
HIGH_SPEED == 3
SUPER_SPEED == 4
SUPER_SPEED_PLUS == 5

\* PortSpeed::try_from: Some(id) for the five known ids.
PortSpeedTryFrom(value) ==
    IF value \in {FULL_SPEED, LOW_SPEED, HIGH_SPEED, SUPER_SPEED, SUPER_SPEED_PLUS}
    THEN Some(value) ELSE None

----------------------------------------------------------------------------
(* usb/devmgr.rs: UsbDevice.  A call works on a context record: the device  *)
(* d, its doorbell register db, the pool offset, the Result so far, and     *)
(* whether the call panicked or spins forever.                              *)

NUM_DEVICE_SLOTS == 8
DATA_BUF_LEN == 256
TRANSFER_RING_LEN == 32

Ok == <<"Ok">>
Err(e) == <<e>>
DeviceError(r) == <<"DeviceError", r[1]>>

Ctx(d, db, offset) ==
    [d |-> d, db |-> db, OFFSET |-> offset, result |-> Ok, halted |-> "no",
     observed |-> <<>>]

Fail(c, e) == [c EXCEPT !.result = Err(e)]
Halt(c, how) == [c EXCEPT !.halted = how, !.result = Err(how)]

\* DoorbellRegister::ring(target, stream_id): the register holds both fields,
\* and counts the writes.
DoorbellRing(db, target, stream_id) ==
    [rings |-> db.rings + 1, target |-> target, stream_id |-> stream_id]

\* UsbDevice::ring_doorbell
DevRingDoorbell(c, endpoint_id) == [c EXCEPT !.db = DoorbellRing(@, endpoint_id, 0)]

\* get_mut(key) followed by a write through the reference.
ArrayMapUpdate(m, key, value) ==
    [m EXCEPT ![Min(ArrayMapHits(m, key))] = Some(<<key, value>>)]

\* control_in and control_out with the address of the last TRB pushed as the
\* key of setup_stage_map.
ControlTransferStatusKey(c, endpoint_id, setup_data, buf, len, issuer, data_type, status_in) ==
    LET w == IF IsSome(issuer)
             THEN ArrayMapInsert(c.d.event_waiters, setup_data, Unwrap(issuer))
             ELSE [ok |-> TRUE, map |-> c.d.event_waiters]
        c0 == [c EXCEPT !.d.event_waiters = w.map]
        tr == ArrayMapGet(c.d.transfer_rings, endpoint_id)
    IN  IF ~w.ok THEN Fail(c, "ArrayMapError")
        ELSE IF ENDPOINT_NUMBER_MAX < EndpointIdNumber(endpoint_id)
        THEN Fail(c0, "InvalidEndpointNumber")
        ELSE IF tr = None THEN Fail(c0, "TransferRingNotSet")
        ELSE
          LET r0 == Unwrap(tr)
              setup_stage_ptr == RingPushPtr(r0)
              r1 == RingPush(r0, SetupStageTrbFrom(setup_data,
                        IF IsSome(buf) THEN data_type ELSE TRANSFER_TYPE_NO_DATA_STAGE))
              key_ptr == RingPushPtr(r1)
              r2 == RingPush(r1, IF IsSome(buf)
                                 THEN DataStageTrbFrom(Unwrap(buf), len, TRUE, TRUE)
                                 ELSE StatusStageTrbNew(status_in, TRUE))
              r3 == IF IsSome(buf) THEN RingPush(r2, StatusStageTrbNew(FALSE, FALSE))
                    ELSE r2
              ins == ArrayMapInsert(c.d.setup_stage_map, RingPushPtr(r3) - SIZE_OF_TRB,
                                  setup_stage_ptr)
              c1 == [c0 EXCEPT !.d.transfer_rings = ArrayMapUpdate(@, endpoint_id, r3)]
          IN  IF ~ins.ok THEN Fail(c1, "ArrayMapError")
              ELSE DevRingDoorbell([c1 EXCEPT !.d.setup_stage_map = ins.map], endpoint_id)

\* The body control_in and control_out share: they differ in the transfer
\* type of the setup stage and in the direction of a lone status stage.
ControlTransfer(c, endpoint_id, setup_data, buf, len, issuer, data_type, status_in) ==
    LET w == IF IsSome(issuer)
             THEN ArrayMapInsert(c.d.event_waiters, setup_data, Unwrap(issuer))
             ELSE [ok |-> TRUE, map |-> c.d.event_waiters]
        c0 == [c EXCEPT !.d.event_waiters = w.map]
        tr == ArrayMapGet(c.d.transfer_rings, endpoint_id)
    IN  IF ~w.ok THEN Fail(c, "ArrayMapError")
        ELSE IF ENDPOINT_NUMBER_MAX < EndpointIdNumber(endpoint_id)
        THEN Fail(c0, "InvalidEndpointNumber")
        ELSE IF tr = None THEN Fail(c0, "TransferRingNotSet")
        ELSE
          LET r0 == Unwrap(tr)
              setup_stage_ptr == RingPushPtr(r0)
              r1 == RingPush(r0, SetupStageTrbFrom(setup_data,
                        IF IsSome(buf) THEN data_type ELSE TRANSFER_TYPE_NO_DATA_STAGE))
              key_ptr == RingPushPtr(r1)
              r2 == RingPush(r1, IF IsSome(buf)
                                 THEN DataStageTrbFrom(Unwrap(buf), len, TRUE, TRUE)
                                 ELSE StatusStageTrbNew(status_in, TRUE))
              r3 == IF IsSome(buf) THEN RingPush(r2, StatusStageTrbNew(FALSE, FALSE))
                    ELSE r2
              ins == ArrayMapInsert(c.d.setup_stage_map, key_ptr, setup_stage_ptr)
              c1 == [c0 EXCEPT !.d.transfer_rings = ArrayMapUpdate(@, endpoint_id, r3)]
          IN  IF ~ins.ok THEN Fail(c1, "ArrayMapError")
              ELSE DevRingDoorbell([c1 EXCEPT !.d.setup_stage_map = ins.map], endpoint_id)

ControlIn(c, endpoint_id, setup_data, buf, len, issuer) ==
    ControlTransfer(c, endpoint_id, setup_data, buf, len, issuer,
                    TRANSFER_TYPE_IN_DATA_STAGE, TRUE)

ControlOut(c, endpoint_id, setup_data, buf, len, issuer) ==
    ControlTransfer(c, endpoint_id, setup_data, buf, len, issuer,
                    TRANSFER_TYPE_OUT_DATA_STAGE, FALSE)

\* interrupt_in
InterruptIn(c, endpoint_id, buf, len) ==
    LET tr == ArrayMapGet(c.d.transfer_rings, endpoint_id)
    IN  IF tr = None THEN Fail(c, "TransferRingNotSet")
        ELSE DevRingDoorbell(
               [c EXCEPT !.d.transfer_rings =
                   ArrayMapUpdate(@, endpoint_id, RingPush(Unwrap(tr), NormalTrbNew(buf, len)))],
               endpoint_id)

DESCRIPTOR_TYPE_DEVICE == 1
DESCRIPTOR_TYPE_CONFIGURATION == 2
DESCRIPTOR_TYPE_INTERFACE == 4
DESCRIPTOR_TYPE_ENDPOINT == 5
DESCRIPTOR_TYPE_HID == 33

\* get_descriptor
GetDescriptor(c, endpoint_id, desc_type, desc_index, buf, len) ==
    ControlIn(c, endpoint_id,
              SetupDataNew(RequestTypeNew(DIRECTION_IN, TYPE_STANDARD, RECIPIENT_DEVICE),
                           REQUEST_GET_DESCRIPTOR, desc_type * 256 + desc_index, 0,
                           len % 65536),
              buf, len, None)

\* set_configuration
SetConfiguration(c, endpoint_id, config_value) ==
    ControlOut(c, endpoint_id,
               SetupDataNew(RequestTypeNew(DIRECTION_OUT, TYPE_STANDARD, RECIPIENT_DEVICE),
                            REQUEST_SET_CONFIGURATION, config_value, 0, 0),
               None, 0, None)

\* start_initialize
StartInitialize(c) ==
    GetDescriptor([c EXCEPT !.d.is_initialized = FALSE, !.d.initialize_phase = 1],
                  DEFAULT_CONTROL_PIPE_ID, DESCRIPTOR_TYPE_DEVICE, 0,
                  Some(c.d.data_buf), DATA_BUF_LEN)

\* alloc_transfer_ring, from the insertion into transfer_rings on: ins is
\* what the insertion returned.
AllocTransferRingInsert(c, ins) ==
    IF ~ins.ok THEN Fail(c, "ArrayMapError")
    ELSE [c EXCEPT !.d.transfer_rings = ins.map]

\* alloc_transfer_ring, from Ring::initialize on: a is what the allocation
\* returned.
AllocTransferRingAllocated(c, a, endpoint_id, buf_size) ==
    IF ~a.ok THEN Fail(c, "TrbError")
    ELSE AllocTransferRingInsert(
             [c EXCEPT !.OFFSET = a.offset],
             ArrayMapInsert(c.d.transfer_rings, endpoint_id,
                            RingInitialize(a.ptr, buf_size)))

\* alloc_transfer_ring
AllocTransferRing(c, endpoint_id, buf_size) ==
    AllocTransferRingAllocated(
        c, Allocate(c.OFFSET, buf_size * SIZE_OF_TRB, Some(64), Some(65536)),
        endpoint_id, buf_size)

ENDPOINT_TYPE_CONTROL == 0
ENDPOINT_TYPE_ISOCHRONOUS == 1
ENDPOINT_TYPE_BULK == 2
ENDPOINT_TYPE_INTERRUPT == 3

\* msb1: the index of the highest one bit (intervals are u8 values here).
Msb1(n) == IF n = 0 THEN None ELSE Some(CHOOSE i \in 0..30 : 2 ^ i <= n /\ n < 2 ^ (i + 1))

\* PortSpeed::convert_interval; interval - 1 underflows for interval 0.
ConvertInterval(speed, endpoint_type, interval) ==
    IF speed \in {FULL_SPEED, LOW_SPEED}
    THEN IF endpoint_type = ENDPOINT_TYPE_ISOCHRONOUS THEN interval * 2
         ELSE (IF IsSome(Msb1(interval)) THEN Unwrap(Msb1(interval)) ELSE -1) + 3
    ELSE interval - 1

\* address_device: the transfer ring of the default control pipe and the
\* input context; port_speed().unwrap() panics on an unknown speed id.
DevAddressDevice(c, port_num, port_speed) ==
    LET ep0 == DEFAULT_CONTROL_PIPE_ID
        c1 == AllocTransferRing(c, ep0, TRANSFER_RING_LEN)
        tr_ptr == Unwrap(ArrayMapGet(c1.d.transfer_rings, ep0)).buffer
        ic1 == EnableEndpoint(EnableSlotContext(c1.d.input_ctx), ep0)
        ic2 == [ic1 EXCEPT !.slot_context.route_string = 0,
                           !.slot_context.root_hub_port_num = port_num,
                           !.slot_context.context_entries = 1]
        speed == Unwrap(port_speed)
        ic3 == [ic2 EXCEPT !.slot_context.speed = speed,
                           !.endpoint_contexts[ep0] =
                               [@ EXCEPT !.endpoint_type = 4,
                                         !.max_packet_size =
                                             IF speed = SUPER_SPEED THEN 512
                                             ELSE IF speed = HIGH_SPEED THEN 64 ELSE 8,
                                         !.max_burst_size = 0,
                                         !.transfer_ring_buffer = tr_ptr,
                                         !.dequeue_cycle_state = TRUE,
                                         !.interval = 0,
                                         !.max_primary_streams = 0,
                                         !.mult = 0,
                                         !.error_count = 3]]
    IN  IF c1.result # Ok THEN c1
        ELSE IF port_speed = None THEN Halt([c1 EXCEPT !.d.input_ctx = ic2], "panic")
        ELSE [c1 EXCEPT !.d.input_ctx = ic3]

\* The xHCI endpoint type of an EndpointConfig.
EndpointTypeCode(endpoint_type, is_in) ==
    CASE endpoint_type = ENDPOINT_TYPE_CONTROL -> 4
      [] endpoint_type = ENDPOINT_TYPE_ISOCHRONOUS -> IF is_in THEN 5 ELSE 1
      [] endpoint_type = ENDPOINT_TYPE_BULK -> IF is_in THEN 6 ELSE 2
      [] OTHER -> IF is_in THEN 7 ELSE 3

\* configure_endpoints: the endpoint context fields set before the
\* transfer ring is allocated, and those set after it.
EndpointContextOfConfig(ep_ctx, conf, speed) ==
    [ep_ctx EXCEPT
        !.endpoint_type = EndpointTypeCode(conf.endpoint_type,
                                           EndpointIdIsIn(conf.endpoint_id)),
        !.max_packet_size = conf.max_packet_size % 65536,
        !.interval = ConvertInterval(speed, conf.endpoint_type, conf.interval) % 256,
        !.average_trb_length = 1]

EndpointContextOfRing(ep_ctx, tr) ==
    [ep_ctx EXCEPT
        !.transfer_ring_buffer = tr.buffer,
        !.dequeue_cycle_state = TRUE, !.max_primary_streams = 0,
        !.mult = 0, !.error_count = 3]

\* configure_endpoints: the body of the loop for the EndpointConfig conf,
\* from alloc_transfer_ring on: c2 is what it left.
DevConfigureEndpoint(c2, conf, speed) ==
    IF c2.result # Ok
    THEN [c2 EXCEPT !.d.input_ctx.endpoint_contexts[conf.endpoint_id] =
                        EndpointContextOfConfig(@, conf, speed)]
    ELSE [c2 EXCEPT !.d.input_ctx.endpoint_contexts[conf.endpoint_id] =
                        EndpointContextOfRing(
                            EndpointContextOfConfig(@, conf, speed),
                            Unwrap(ArrayMapGet(c2.d.transfer_rings, conf.endpoint_id)))]

\* configure_endpoints: the loop over ep_configs from index i on.
RECURSIVE DevConfigureLoop(_, _, _)
DevConfigureLoop(c, i, speed) ==
    IF i > Len(c.d.ep_configs) \/ c.result # Ok THEN c
    ELSE DevConfigureLoop(
             DevConfigureEndpoint(
                 AllocTransferRing(
                     [c EXCEPT !.d.input_ctx =
                                   EnableEndpoint(@, c.d.ep_configs[i].endpoint_id)],
                     c.d.ep_configs[i].endpoint_id, TRANSFER_RING_LEN),
                 c.d.ep_configs[i], speed),
             i + 1, speed)

\* configure_endpoints
DevConfigureEndpoints(c, port_speed) ==
    LET ic == [EnableSlotContext([c.d.input_ctx EXCEPT !.add_context_flags = {}])
                 EXCEPT !.slot_context =
                    [c.d.device_ctx.slot_context EXCEPT !.context_entries = ENDPOINT_ID_MAX]]
        c1 == [c EXCEPT !.d.input_ctx = ic]
    IN  IF port_speed = None THEN Fail(c1, "UnknownXHCISpeedID")
        ELSE DevConfigureLoop(c1, 1, Unwrap(port_speed))

----------------------------------------------------------------------------
(* usb/descriptor.rs: a descriptor buffer is the sequence of the bytes the   *)
(* device wrote at data_buf; the bytes after them read as zero.              *)

ByteAt(b, i) == IF i < Len(b) THEN b[i + 1] ELSE 0

\* Descriptor::specialize at an offset of the buffer.
DescriptorSpecialize(b, at) ==
    LET t == ByteAt(b, at + 1)
    IN  [type |-> IF t \in {DESCRIPTOR_TYPE_DEVICE, DESCRIPTOR_TYPE_CONFIGURATION,
                            DESCRIPTOR_TYPE_INTERFACE, DESCRIPTOR_TYPE_ENDPOINT,
                            DESCRIPTOR_TYPE_HID}
                  THEN t ELSE 0,
         at |-> at]

\* DescriptorIter::next: the length byte is read at ptr.add(offset), which is
\* base + 2 * offset.
DescriptorIterNext(b, it) ==
    IF it.offset < it.len
    THEN [item |-> Some(DescriptorSpecialize(b, it.offset)),
          it |-> [it EXCEPT !.offset = @ + ByteAt(b, it.offset + it.offset)]]
    ELSE [item |-> None, it |-> it]

\* EndpointConfig::from
EndpointConfigFrom(b, at) ==
    [endpoint_id |-> EndpointIdFrom(GetBits(ByteAt(b, at + 2), 0, 4),
                                    GetBit(ByteAt(b, at + 2), 7)),
     endpoint_type |-> GetBits(ByteAt(b, at + 3), 0, 2),
     max_packet_size |-> ByteAt(b, at + 4) + 256 * ByteAt(b, at + 5),
     interval |-> ByteAt(b, at + 6)]

----------------------------------------------------------------------------
(* usb/classdriver/mod.rs *)

SIZE_OF_HID_MOUSE_DRIVER == 16
HID_BUF_LEN == 1024
IN_PACKET_SIZE == 3

\* ClassDriver::new: None, or the driver allocated in the pool; a failed
\* allocation panics.
ClassDriverNew(c, b, at) ==
    LET a1 == Allocate(c.OFFSET, SIZE_OF_HID_MOUSE_DRIVER, None, None)
        a2 == Allocate(a1.offset, HID_BUF_LEN, None, None)
    IN  IF ByteAt(b, at + 5) = 3 /\ ByteAt(b, at + 6) = 1 /\ ByteAt(b, at + 7) = 2
        THEN IF ~a1.ok THEN [driver |-> None, c |-> Halt(c, "panic")]
             ELSE IF ~a2.ok
             THEN [driver |-> None, c |-> Halt([c EXCEPT !.OFFSET = a1.offset], "panic")]
             ELSE [driver |-> Some(a1.ptr),
                   c |-> [c EXCEPT !.OFFSET = a2.offset,
                                   !.d.drivers = (a1.ptr :> [interface_index |-> ByteAt(b, at + 2),
                                                             endpoint_interrupt_in |-> 0,
                                                             buf |-> a2.ptr]) @@ @]]
        ELSE [driver |-> None, c |-> c]

\* A byte read as i8.
AsI8(byte) == IF byte >= 128 THEN byte - 256 ELSE byte

\* HidMouseDriver::on_interrupt_completed with the bytes swapped: x from
\* byte 2, y from byte 1.
HidMouseOnInterruptCompletedSwapped(c, ep_id, b) ==
    IF EndpointIdIsIn(ep_id)
    THEN [c EXCEPT !.observed = Append(@, <<AsI8(ByteAt(b, 2)), AsI8(ByteAt(b, 1))>>)]
    ELSE c

\* HidMouseDriver::on_interrupt_completed through the ClassDriver pointer; b
\* is what the device left at the driver's buf, and the observer main.rs
\* registered receives (x, y).
HidMouseOnInterruptCompleted(c, ep_id, b) ==
    IF EndpointIdIsIn(ep_id)
    THEN [c EXCEPT !.observed = Append(@, <<AsI8(ByteAt(b, 1)), AsI8(ByteAt(b, 2))>>)]
    ELSE c

\* HidMouseDriver::set_endpoint through the ClassDriver pointer.
ClassDriverSetEndpoint(c, driver, config) ==
    IF config.endpoint_type = ENDPOINT_TYPE_INTERRUPT /\ EndpointIdIsIn(config.endpoint_id)
    THEN [c EXCEPT !.d.drivers[driver].endpoint_interrupt_in = config.endpoint_id]
    ELSE c

----------------------------------------------------------------------------
(* usb/devmgr.rs: the initialization phases and the event callbacks *)

\* initialize_phase1 storing phase 3 instead of phase 2.
InitializePhase1Skip(c) ==
    GetDescriptor([c EXCEPT !.d.initialize_phase = 3],
                  DEFAULT_CONTROL_PIPE_ID, DESCRIPTOR_TYPE_CONFIGURATION, 0,
                  Some(c.d.data_buf), DATA_BUF_LEN)

\* initialize_phase1
InitializePhase1(c) ==
    GetDescriptor([c EXCEPT !.d.initialize_phase = 2],
                  DEFAULT_CONTROL_PIPE_ID, DESCRIPTOR_TYPE_CONFIGURATION, 0,
                  Some(c.d.data_buf), DATA_BUF_LEN)

\* initialize_phase2: what the inner loop does with an Endpoint descriptor:
\* the driver is stored under the endpoint's number and the EndpointConfig
\* is pushed.
RegisterEndpoint(c, conf, driver) ==
    LET cd == ArrayMapInsert(c.d.class_drivers, EndpointIdNumber(conf.endpoint_id), driver)
        c1 == [c EXCEPT !.d.class_drivers = cd.map]
    IN  IF ~cd.ok THEN Fail(c, "ArrayMapError")
        ELSE IF Len(c.d.ep_configs) >= ENDPOINT_NUMBER_MAX
        THEN Fail(c1, "ArrayVecError")
        ELSE [c1 EXCEPT !.d.ep_configs = Append(@, conf)]

\* initialize_phase2: the inner loop over the endpoint descriptors of the
\* interface.  The loop spins forever once the iterator stops advancing
\* without yielding an endpoint descriptor.
RECURSIVE Phase2Endpoints(_, _, _, _, _, _)
Phase2Endpoints(c, b, it, num_endpoints, total, driver) ==
    IF num_endpoints >= total \/ c.result # Ok THEN c
    ELSE
      LET n == DescriptorIterNext(b, it)
          is_ep == IsSome(n.item) /\ Unwrap(n.item).type = DESCRIPTOR_TYPE_ENDPOINT
      IN  IF is_ep
          THEN Phase2Endpoints(
                   RegisterEndpoint(c, EndpointConfigFrom(b, Unwrap(n.item).at), driver),
                   b, n.it, num_endpoints + 1, total, driver)
          ELSE IF n.it = it THEN Halt(c, "hang")
          ELSE Phase2Endpoints(c, b, n.it, num_endpoints, total, driver)

\* initialize_phase2
\* initialize_phase2 behind its loops, a class driver found: c holds the
\* registered endpoints.
Phase2Registered(c, b) ==
    IF c.result # Ok THEN c
    ELSE SetConfiguration([c EXCEPT !.d.initialize_phase = 3],
                          DEFAULT_CONTROL_PIPE_ID, ByteAt(b, 5))

\* initialize_phase2 from ClassDriver::new on: n is what the first
\* iter.next() returned, an Interface descriptor, and cd what
\* ClassDriver::new returned for it.
Phase2Interface(c, b, n, cd) ==
    IF cd.c.halted # "no" THEN cd.c
    ELSE IF cd.driver = None THEN c
    ELSE Phase2Registered(
             Phase2Endpoints(cd.c, b, n.it, 0, ByteAt(b, Unwrap(n.item).at + 4),
                             Unwrap(cd.driver)),
             b)

\* initialize_phase2 from the first iter.next() on, were its loop to step over
\* the Configuration descriptor the iterator yields first.
Phase2FirstPastConfiguration(c, b, n) ==
    LET m == IF IsSome(n.item) /\ Unwrap(n.item).type = DESCRIPTOR_TYPE_CONFIGURATION
             THEN DescriptorIterNext(b, n.it) ELSE n
    IN  IF IsSome(m.item) /\ Unwrap(m.item).type = DESCRIPTOR_TYPE_INTERFACE
        THEN Phase2Interface(c, b, m, ClassDriverNew(c, b, Unwrap(m.item).at))
        ELSE c

\* initialize_phase2 from the first iter.next() on: n is what it returned.
Phase2First(c, b, n) ==
    IF IsSome(n.item) /\ Unwrap(n.item).type = DESCRIPTOR_TYPE_INTERFACE
    THEN Phase2Interface(c, b, n, ClassDriverNew(c, b, Unwrap(n.item).at))
    ELSE c

\* initialize_phase2
InitializePhase2(c, b, len) ==
    Phase2First(c, b, DescriptorIterNext(b, [len |-> len, offset |-> 0]))

\* initialize_phase3: the loop over ep_configs from index i on.
RECURSIVE Phase3Loop(_, _)
Phase3Loop(c, i) ==
    IF i > Len(c.d.ep_configs) THEN c
    ELSE LET config == c.d.ep_configs[i]
             driver == ArrayMapGet(c.d.class_drivers, EndpointIdNumber(config.endpoint_id))
         IN  IF driver = None THEN Halt(c, "panic")
             ELSE Phase3Loop(ClassDriverSetEndpoint(c, Unwrap(driver), config), i + 1)

\* initialize_phase3 behind its loop: c1 is what the loop left.
Phase3Done(c1) ==
    IF c1.halted # "no" THEN c1
    ELSE [c1 EXCEPT !.d.initialize_phase = 4, !.d.is_initialized = TRUE]

\* initialize_phase3
InitializePhase3(c) == Phase3Done(Phase3Loop(c, 1))

\* on_control_completed; buf is None for the null pointer of a status stage.
OnControlCompleted(c, setup_data, buf, len) ==
    LET waiter == ArrayMapGet(c.d.event_waiters, setup_data)
        drv == c.d.drivers[Unwrap(waiter)]
        b == Unwrap(buf)
    IN  IF c.d.is_initialized
        THEN IF IsSome(waiter)
             THEN InterruptIn(c, drv.endpoint_interrupt_in, drv.buf, IN_PACKET_SIZE)
             ELSE Fail(c, "NoWaiter")
        ELSE IF c.d.initialize_phase \in {1, 2}
                /\ SetupDataRequest(setup_data) = REQUEST_GET_DESCRIPTOR
                /\ buf = None
        THEN Halt(c, "panic")
        ELSE IF c.d.initialize_phase = 1
        THEN IF SetupDataRequest(setup_data) = REQUEST_GET_DESCRIPTOR
                /\ DescriptorSpecialize(b, 0).type = DESCRIPTOR_TYPE_DEVICE
             THEN InitializePhase1(c)
             ELSE Fail(c, "InvalidPhase")
        ELSE IF c.d.initialize_phase = 2
        THEN IF SetupDataRequest(setup_data) = REQUEST_GET_DESCRIPTOR
                /\ DescriptorSpecialize(b, 0).type = DESCRIPTOR_TYPE_CONFIGURATION
             THEN InitializePhase2(c, b, len)
             ELSE Fail(c, "InvalidPhase")
        ELSE IF c.d.initialize_phase = 3
        THEN IF SetupDataRequest(setup_data) = REQUEST_SET_CONFIGURATION
             THEN InitializePhase3(c)
             ELSE Fail(c, "InvalidPhase")
        ELSE Fail(c, "NotImplemented")

\* on_interrupt_completed without the interrupt_in that follows the call of
\* the driver.
OnInterruptCompletedOnce(c, endpoint_id, len, b) ==
    IF ArrayMapGet(c.d.class_drivers, EndpointIdNumber(endpoint_id)) = None
    THEN Fail(c, "NoWaiter")
    ELSE IF EndpointIdIsIn(endpoint_id)
    THEN HidMouseOnInterruptCompleted(c, endpoint_id, b)
    ELSE c

\* on_interrupt_completed; b is what the device left at the driver's buf.
OnInterruptCompleted(c, endpoint_id, len, b) ==
    LET driver == ArrayMapGet(c.d.class_drivers, EndpointIdNumber(endpoint_id))
        drv == c.d.drivers[Unwrap(driver)]
    IN  IF driver = None THEN Fail(c, "NoWaiter")
        ELSE IF EndpointIdIsIn(endpoint_id)
        THEN InterruptIn(HidMouseOnInterruptCompleted(c, endpoint_id, b),
                         drv.endpoint_interrupt_in, drv.buf, IN_PACKET_SIZE)
        ELSE c

\* The TRB a pointer into one of the device's transfer rings refers to.
DevRingsAt(d, ptr) ==
    {i \in DOMAIN d.transfer_rings :
        IsSome(d.transfer_rings[i]) /\ RingInBuffer(Unwrap(d.transfer_rings[i])[2], ptr)}

DevDeref(d, ptr) ==
    IF DevRingsAt(d, ptr) = {} THEN ZeroTrb
    ELSE RingRead(Unwrap(d.transfer_rings[Min(DevRingsAt(d, ptr))])[2], ptr)

\* on_transfer_event_received without the test of the completion code.
OnTransferEventReceivedAnyCode(c, trb, b) ==
    LET residual_length == TransferEventResidual(trb)
        code == TransferEventCompletionCode(trb)
        issuer == DevDeref(c.d, TransferEventTrbPointer(trb))
        rem == ArrayMapRemove(c.d.setup_stage_map, TransferEventTrbPointer(trb))
        c1 == [c EXCEPT !.d.setup_stage_map = rem.map]
        setup_data == SetupDataFromTrb(DevDeref(c.d, Unwrap(rem.value)))
    IN  IF TrbType(issuer) = TYPE_NORMAL
        THEN IF NormalTransferLength(issuer) < residual_length THEN Halt(c, "panic")
             ELSE OnInterruptCompleted(c, TransferEventEndpointId(trb),
                                       NormalTransferLength(issuer) - residual_length, b)
        ELSE IF rem.value = None THEN Fail(c1, "NoCorrespondingSetupStage")
        ELSE IF TrbType(issuer) = TYPE_DATA_STAGE
        THEN IF DataStageTransferLength(issuer) < residual_length THEN Halt(c1, "panic")
             ELSE OnControlCompleted(c1, setup_data, Some(b),
                                     DataStageTransferLength(issuer) - residual_length)
        ELSE IF TrbType(issuer) = TYPE_STATUS_STAGE
        THEN OnControlCompleted(c1, setup_data, None, 0)
        ELSE Fail(c1, "NotImplemented")

\* on_endpoints_configured: the loop over ep_configs from index i on.
\* on_transfer_event_received; b is what the device left in the buffer of
\* the transfer: at data_buf, or at the driver's buf for a Normal TRB.
OnTransferEventReceived(c, trb, b) ==
    LET residual_length == TransferEventResidual(trb)
        code == TransferEventCompletionCode(trb)
        issuer == DevDeref(c.d, TransferEventTrbPointer(trb))
        rem == ArrayMapRemove(c.d.setup_stage_map, TransferEventTrbPointer(trb))
        c1 == [c EXCEPT !.d.setup_stage_map = rem.map]
        setup_data == SetupDataFromTrb(DevDeref(c.d, Unwrap(rem.value)))
    IN  IF ~(code = 1 \/ code = 13) THEN Fail(c, "TransferFailed")
        ELSE IF TrbType(issuer) = TYPE_NORMAL
        THEN IF NormalTransferLength(issuer) < residual_length THEN Halt(c, "panic")
             ELSE OnInterruptCompleted(c, TransferEventEndpointId(trb),
                                       NormalTransferLength(issuer) - residual_length, b)
        ELSE IF rem.value = None THEN Fail(c1, "NoCorrespondingSetupStage")
        ELSE IF TrbType(issuer) = TYPE_DATA_STAGE
        THEN IF DataStageTransferLength(issuer) < residual_length THEN Halt(c1, "panic")
             ELSE OnControlCompleted(c1, setup_data, Some(b),
                                     DataStageTransferLength(issuer) - residual_length)
        ELSE IF TrbType(issuer) = TYPE_STATUS_STAGE
        THEN OnControlCompleted(c1, setup_data, None, 0)
        ELSE Fail(c1, "NotImplemented")

\* on_endpoints_configured: the loop over ep_configs from index i on.
\* on_endpoints_configured: the SET_PROTOCOL request for the driver of an
\* endpoint; unwrap() panics when the endpoint has none.
SetProtocol(c, driver) ==
    IF driver = None THEN Halt(c, "panic")
    ELSE ControlOut(c, DEFAULT_CONTROL_PIPE_ID,
                    SetupDataNew(RequestTypeNew(DIRECTION_OUT, TYPE_CLASS,
                                                RECIPIENT_INTERFACE),
                                 REQUEST_SET_PROTOCOL, 0,
                                 c.d.drivers[Unwrap(driver)].interface_index, 0),
                    None, 0, driver)

RECURSIVE OnEndpointsConfiguredLoop(_, _)
OnEndpointsConfiguredLoop(c, i) ==
    IF i > Len(c.d.ep_configs) \/ c.result # Ok THEN c
    ELSE OnEndpointsConfiguredLoop(
             SetProtocol(c, ArrayMapGet(c.d.class_drivers,
                                        EndpointIdNumber(c.d.ep_configs[i].endpoint_id))),
             i + 1)

OnEndpointsConfigured(c) == OnEndpointsConfiguredLoop(c, 1)

----------------------------------------------------------------------------
(* usb/port.rs and the PORTSC register (a 32-bit word below bit 31) *)

BitOr(x, y) == x + y - BitAnd(x, y)

PORTSC_RESET_AND_MASK == 234931168
PORTSC_RESET_OR_MASK == 131088
PORTSC_CLEAR_AND_MASK == 234996704

\* The controller's side of PORTSC: CCS (bit 0) and the speed (bits 10..13)
\* are read-only; PED (bit 1) and the change bits 17..23 are cleared by
\* writing one; the other bits take the value written.
PORTSC_RO_BITS == 15361
PORTSC_RW1C_BITS == 16646146

PortscWrite(old, w) ==
    BitAnd(old, PORTSC_RO_BITS)
    + (BitAnd(old, PORTSC_RW1C_BITS) - BitAnd(BitAnd(old, PORTSC_RW1C_BITS), w))
    + (w - BitAnd(w, PORTSC_RO_BITS + PORTSC_RW1C_BITS))

\* Port::is_connected, is_enabled, is_port_reset_changed, port_speed
PortIsConnected(v) == GetBit(v, 0)
PortIsEnabled(v) == GetBit(v, 1)
PortIsPortResetChanged(v) == GetBit(v, 21)
PortPortSpeed(v) == PortSpeedTryFrom(GetBits(v, 10, 4))

\* Port::reset: the masked write that sets PR, then the wait until the
\* controller clears PR; the controller then has set PRC, and PED when the
\* reset enabled the port.
PortReset(v, enabled) ==
    LET w == BitOr(BitAnd(v, PORTSC_RESET_AND_MASK), PORTSC_RESET_OR_MASK)
    IN  SetBit(SetBit(SetBit(PortscWrite(v, w), 4, FALSE), 21, TRUE), 1, enabled)

\* Port::clear_port_reset_change
PortClearPortResetChange(v) ==
    PortscWrite(v, SetBit(BitAnd(v, PORTSC_CLEAR_AND_MASK), 21, TRUE))

----------------------------------------------------------------------------
(* usb/mod.rs: Xhc.  A handler works on the record s of the driver's and the *)
(* controller's state and yields the record after it.                        *)

COMMAND_RING_LEN == 32
EVENT_RING_LEN == 32
DEVICES_CAPACITY == 9

Ports == 1..MaxPorts
SlotIds == 1..MaxSlots

\* DeviceManager::allocate_device: the UsbDevice it inserts.
UsbDeviceNew(device_context, input_context, data_buf) ==
    [class_drivers |-> ArrayMapNew(ENDPOINT_NUMBER_MAX),
     transfer_rings |-> ArrayMapNew(ENDPOINT_ID_MAX),
     data_buf |-> data_buf,
     ep_configs |-> <<>>,
     setup_stage_map |-> ArrayMapNew(16),
     event_waiters |-> ArrayMapNew(4),
     device_context |-> device_context,
     input_context |-> input_context,
     is_initialized |-> FALSE,
     initialize_phase |-> 0,
     input_ctx |-> InputContextDefault,
     device_ctx |-> DeviceContextDefault,
     drivers |-> <<>>]

\* DeviceManager::allocate_device
AllocateDevice(s, slot_id) ==
    LET a1 == Allocate(s.OFFSET, SIZE_OF_DEVICE_CONTEXT, Some(64), Some(4096))
        a2 == Allocate(a1.offset, SIZE_OF_INPUT_CONTEXT, Some(64), Some(4096))
        a3 == Allocate(a2.offset, DATA_BUF_LEN, None, None)
        ins == ArrayMapInsert(s.devices, slot_id, UsbDeviceNew(a1.ptr, a2.ptr, a3.ptr))
    IN  IF ~a1.ok THEN [s EXCEPT !.result = <<"DeviceError", "AllocError">>]
        ELSE IF ~a2.ok
        THEN [s EXCEPT !.OFFSET = a1.offset, !.result = <<"DeviceError", "AllocError">>]
        ELSE IF ~a3.ok
        THEN [s EXCEPT !.OFFSET = a2.offset, !.result = <<"DeviceError", "AllocError">>]
        ELSE [s EXCEPT !.OFFSET = a3.offset,
                       !.dcbaa[slot_id] = a1.ptr,
                       !.devices = ins.map,
                       !.result = IF ins.ok THEN Ok ELSE <<"DeviceError", "ArrayMapError">>]

\* DeviceManager::find_by_slot
FindBySlot(s, slot_id) == ArrayMapGet(s.devices, slot_id)

\* A call into the device of a slot, and its effect back in the record.
DevCtx(s, slot_id) == Ctx(Unwrap(FindBySlot(s, slot_id)), s.doorbell[slot_id], s.OFFSET)

DevDone(s, slot_id, c) ==
    [s EXCEPT !.devices = ArrayMapUpdate(@, slot_id, c.d),
              !.doorbell[slot_id] = c.db,
              !.OFFSET = c.OFFSET,
              !.halted = c.halted,
              !.observed = @ \o c.observed,
              !.result = IF c.result = Ok \/ c.halted # "no" THEN c.result
                         ELSE DeviceError(c.result)]

\* Pushing a command and ringing doorbell 0 with target 0.
PushCommand(s, cmd) ==
    [s EXCEPT !.command_ring = RingPush(@, cmd),
              !.doorbell[0] = DoorbellRing(@, 0, 0)]

\* reset_port without the addressing_port test: every connected port resets.
ResetPortUnserialized(s, p, enabled) ==
    IF PortIsConnected(s.portsc[p])
    THEN IF s.port_config_phase[p] \in {"NotConnected", "WaitingAddressed"}
         THEN [s EXCEPT !.addressing_port = Some(p),
                        !.port_config_phase[p] = "ResettingPort",
                        !.portsc[p] = PortReset(@, enabled)]
         ELSE [s EXCEPT !.result = Err("InvalidPhase")]
    ELSE s

\* reset_port; enabled is whether the port reset, if one is made, enables
\* the port.
ResetPort(s, p, enabled) ==
    IF PortIsConnected(s.portsc[p])
    THEN IF IsSome(s.addressing_port)
         THEN [s EXCEPT !.port_config_phase[p] = "WaitingAddressed"]
         ELSE IF s.port_config_phase[p] \in {"NotConnected", "WaitingAddressed"}
         THEN [s EXCEPT !.addressing_port = Some(p),
                        !.port_config_phase[p] = "ResettingPort",
                        !.portsc[p] = PortReset(@, enabled)]
         ELSE [s EXCEPT !.result = Err("InvalidPhase")]
    ELSE s

\* enable_slot
EnableSlot(s, p) ==
    IF PortIsEnabled(s.portsc[p]) /\ PortIsPortResetChanged(s.portsc[p])
    THEN PushCommand([s EXCEPT !.portsc[p] = PortClearPortResetChange(@),
                               !.port_config_phase[p] = "EnablingSlot"],
                     EnableSlotCommandTrbNew)
    ELSE s

\* configure_port without the test of the port's phase.
ConfigurePortAnyPhase(s, p, enabled) == ResetPort(s, p, enabled)

\* configure_port
ConfigurePortOp(s, p, enabled) ==
    IF s.port_config_phase[p] = "NotConnected" THEN ResetPort(s, p, enabled) ELSE s

\* address_device, from the device's address_device on: c is what it left.
AddressDeviceIssue(s1, c, port_id, slot_id) ==
    LET s2 == DevDone(s1, slot_id, c)
    IN  IF s2.result # Ok THEN s2
        ELSE PushCommand([s2 EXCEPT !.port_config_phase[port_id] = "AddressingDevice"],
                         AddressDeviceCommandTrbNew(slot_id, c.d.input_context))

\* address_device, from allocate_device on: s1 is what it left.
AddressDeviceAllocated(s1, port_id, slot_id) ==
    IF s1.result # Ok THEN s1
    ELSE AddressDeviceIssue(s1,
             DevAddressDevice(DevCtx(s1, slot_id), port_id,
                              PortPortSpeed(s1.portsc[port_id])),
             port_id, slot_id)

\* address_device
AddressDevice(s, port_id, slot_id) ==
    AddressDeviceAllocated(AllocateDevice(s, slot_id), port_id, slot_id)

\* configure_endpoints, from the device's configure_endpoints on: c is what
\* it left.
ConfigureEndpointsIssue(s, c, slot_id, port_id) ==
    LET s1 == DevDone(s, slot_id, c)
    IN  IF s1.result # Ok THEN s1
        ELSE PushCommand([s1 EXCEPT !.port_config_phase[port_id] = "ConfiguringEndpoints"],
                         ConfigureEndpointCommandTrbNew(slot_id, c.d.input_context))

\* configure_endpoints
ConfigureEndpoints(s, slot_id, port_id) ==
    ConfigureEndpointsIssue(s,
        DevConfigureEndpoints(DevCtx(s, slot_id), PortPortSpeed(s.portsc[port_id])),
        slot_id, port_id)

\* The slot's root hub port number, read from the device context.
DevPortId(s, slot_id) ==
    Unwrap(FindBySlot(s, slot_id)).device_ctx.slot_context.root_hub_port_num

\* The ports in WaitingAddressed, in index order the first.
WaitingPorts(s) == {i \in DOMAIN s.port_config_phase :
                        s.port_config_phase[i] = "WaitingAddressed"}

\* on_command_completion_event
OnCommandCompletionEventOp(s, trb, enabled) ==
    LET ptr == CommandCompletionTrbPointer(trb)
        cmd == IF RingInBuffer(s.command_ring, ptr)
               THEN RingRead(s.command_ring, ptr) ELSE ZeroTrb
        slot_id == CommandCompletionSlotId(trb)
        invalid == [s EXCEPT !.result = Err("InvalidPhase")]
    IN  IF TrbType(cmd) = TYPE_ENABLE_SLOT_COMMAND
        THEN IF IsSome(s.addressing_port)
                /\ s.port_config_phase[Unwrap(s.addressing_port)] = "EnablingSlot"
             THEN AddressDevice(s, Unwrap(s.addressing_port), slot_id)
             ELSE invalid
        ELSE IF TrbType(cmd) = TYPE_ADDRESS_DEVICE_COMMAND
        THEN IF FindBySlot(s, slot_id) = None
             THEN [s EXCEPT !.result = Err("InvalidSlotId")]
             ELSE
               LET port_id == DevPortId(s, slot_id)
                   s1 == IF WaitingPorts(s) = {} THEN s
                         ELSE ResetPort(s, Min(WaitingPorts(s)), enabled)
                   s2 == [s1 EXCEPT !.port_config_phase[port_id] = "InitializingDevice"]
               IN  IF s.addressing_port = Some(port_id)
                      /\ s.port_config_phase[port_id] = "AddressingDevice"
                   THEN IF s1.result # Ok THEN s1
                        ELSE DevDone(s2, slot_id, StartInitialize(DevCtx(s2, slot_id)))
                   ELSE invalid
        ELSE IF TrbType(cmd) = TYPE_CONFIGURE_ENDPOINT_COMMAND
        THEN IF FindBySlot(s, slot_id) = None
             THEN [s EXCEPT !.result = Err("InvalidSlotId")]
             ELSE
               LET port_id == DevPortId(s, slot_id)
                   s1 == [s EXCEPT !.port_config_phase[port_id] = "Configured"]
               IN  IF s.port_config_phase[port_id] = "ConfiguringEndpoints"
                   THEN DevDone(s1, slot_id, OnEndpointsConfigured(DevCtx(s1, slot_id)))
                   ELSE invalid
        ELSE invalid

\* on_port_status_change_event, were its last arm to put the port back to
\* NotConnected.
OnPortStatusChangeEventOpForgetting(s, trb, enabled) ==
    LET port_id == PortStatusChangePortId(trb)
    IN  IF s.port_config_phase[port_id] = "NotConnected"
        THEN ResetPort(s, port_id, enabled)
        ELSE IF s.port_config_phase[port_id] = "ResettingPort"
        THEN EnableSlot(s, port_id)
        ELSE [s EXCEPT !.result = Err("InvalidPhase"),
                       !.port_config_phase[port_id] = "NotConnected"]

\* on_port_status_change_event
OnPortStatusChangeEventOp(s, trb, enabled) ==
    LET port_id == PortStatusChangePortId(trb)
    IN  IF s.port_config_phase[port_id] = "NotConnected"
        THEN ResetPort(s, port_id, enabled)
        ELSE IF s.port_config_phase[port_id] = "ResettingPort"
        THEN EnableSlot(s, port_id)
        ELSE [s EXCEPT !.result = Err("InvalidPhase")]

\* The device's on_transfer_event_received, called by on_transfer_event.
OnTransferEventDevice(s, trb, b) ==
    DevDone(s, TransferEventSlotId(trb),
            OnTransferEventReceived(DevCtx(s, TransferEventSlotId(trb)), trb, b))

\* on_transfer_event from the call of the device on, without the test of
\* is_initialized: s1 is what the call left.
OnTransferEventTailUnguarded(s, s1, slot_id) ==
    LET port_id == DevPortId(s1, slot_id)
    IN  IF FindBySlot(s, slot_id) = None
        THEN [s EXCEPT !.result = Err("InvalidSlotId")]
        ELSE IF s1.result # Ok THEN s1
        ELSE IF s1.port_config_phase[port_id] = "InitializingDevice"
        THEN ConfigureEndpoints(s1, slot_id, port_id)
        ELSE s1

\* on_transfer_event from the call of the device on: s1 is what the call left.
OnTransferEventTail(s, s1, slot_id) ==
    LET port_id == DevPortId(s1, slot_id)
    IN  IF FindBySlot(s, slot_id) = None
        THEN [s EXCEPT !.result = Err("InvalidSlotId")]
        ELSE IF s1.result # Ok THEN s1
        ELSE IF Unwrap(FindBySlot(s1, slot_id)).is_initialized
                /\ s1.port_config_phase[port_id] = "InitializingDevice"
        THEN ConfigureEndpoints(s1, slot_id, port_id)
        ELSE s1

\* on_transfer_event without the test of is_initialized.
OnTransferEventUnguarded(s, trb, b) ==
    OnTransferEventTailUnguarded(s, OnTransferEventDevice(s, trb, b),
                                 TransferEventSlotId(trb))

\* on_transfer_event; b is what the device left at data_buf.
OnTransferEventOp(s, trb, b) ==
    OnTransferEventTail(s, OnTransferEventDevice(s, trb, b), TransferEventSlotId(trb))

----------------------------------------------------------------------------
(* The state of the driver and of the controller it drives *)

VARIABLES
    OFFSET,             \* usb/mem.rs: the pool offset
    port_config_phase,  \* Xhc: ConfigPhase by port number
    addressing_port,    \* Xhc: Option<u8>
    command_ring,       \* Xhc: the command Ring and its buffer
    devices,            \* DeviceManager: ArrayMap<SlotId, UsbDevice, 9>
    dcbaa,              \* DeviceManager: the device context base address array
    portsc,             \* controller: PORTSC by port number
    doorbell,           \* controller: the doorbell registers, 0 and one per slot
    result,             \* the Result of the handler that ran last
    halted,             \* "no", or how the driver stopped: "panic" or "hang"
    completed,          \* history: the control transfers a TransferEvent completed
    sink,               \* main.rs: the calls (x, y) the mouse observer received
    ring_impl,          \* which Ring is exercised: "ring" (usb/ring.rs) or "trb"
    ring,               \* the producer Ring exercised and its buffer
    pushes,             \* history: the number of calls of push
    copy,               \* usb/trb/ring.rs: the position of push between its stores
    hc_seen,            \* controller: what it read of the slot being written
    evr_impl,           \* which EventRing is exercised: "ring" or "trb"
    evr,                \* the EventRing exercised, its segment table and buffer
    erdp,               \* controller: the ERDP register
    hw,                 \* controller: its enqueue index, cycle state and count
    consumed,           \* history: the number of calls of pop
    poll,               \* usb/trb/ring.rs: the position of EventRing::poll
    mouse,              \* the HidMouseDriver exercised apart: its buf and calls
    irq,                \* main.rs: the position of xhc_interrupt_handler
    boot,               \* Xhc::initialize and run: their position, and the registers
    mem,                \* usb/mem.rs exercised apart: OFFSET and the calls so far
    amap,               \* the ArrayMaps exercised apart, and the map they stand for
    conv,               \* PortSpeed::convert_interval exercised apart
    mainline,           \* main.rs: the position of init_xhc in its loop over the ports
    hc,                 \* controller: its dequeue position on the producer ring
    walk,               \* usb/descriptor.rs: a DescriptorIter exercised apart
    pool                \* usb/mem.rs: the pool at some base address, exercised apart

xhcVars == <<OFFSET, port_config_phase, addressing_port, command_ring, devices,
             dcbaa, portsc, doorbell, result, halted, completed, sink>>

ringVars == <<ring_impl, ring, pushes, copy, hc_seen>>

evrVars == <<evr_impl, evr, erdp, hw, consumed, poll>>

lateVars == <<hc, walk, pool>>

moreVars == <<mainline, lateVars>>

pureVars == <<mem, amap, conv, moreVars>>

benchVars == <<mouse, irq, boot, pureVars>>

St == [OFFSET |-> OFFSET, port_config_phase |-> port_config_phase,
       addressing_port |-> addressing_port, command_ring |-> command_ring,
       devices |-> devices, dcbaa |-> dcbaa, portsc |-> portsc,
       doorbell |-> doorbell, result |-> Ok, halted |-> halted, observed |-> <<>>]

\* The driver's state becomes s.
XhcBecomes(s) ==
    /\ OFFSET' = s.OFFSET
    /\ port_config_phase' = s.port_config_phase
    /\ addressing_port' = s.addressing_port
    /\ command_ring' = s.command_ring
    /\ devices' = s.devices
    /\ dcbaa' = s.dcbaa
    /\ portsc' = s.portsc
    /\ doorbell' = s.doorbell
    /\ result' = s.result
    /\ halted' = s.halted
    /\ sink' = sink \o s.observed

\* The driver's state becomes s; the rings exercised apart are not involved.
BecomesXhc(s) == XhcBecomes(s) /\ UNCHANGED <<ringVars, evrVars, benchVars>>

Becomes(s) == BecomesXhc(s) /\ UNCHANGED completed

\* Xhc::initialize: the allocations of DeviceManager::initialize,
\* init_command_ring and init_event_ring, in this order.
DcbaaAlloc == Allocate(0, SIZE_OF_POINTER * (NUM_DEVICE_SLOTS + 1), Some(64), Some(4096))
CommandRingAlloc ==
    Allocate(DcbaaAlloc.offset, COMMAND_RING_LEN * SIZE_OF_TRB, Some(64), Some(65536))
EventRingAlloc ==
    Allocate(CommandRingAlloc.offset, EVENT_RING_LEN * SIZE_OF_TRB, Some(64), Some(65536))
SegmentTableAlloc ==
    Allocate(EventRingAlloc.offset, SIZE_OF_SEGMENT_TABLE_ENTRY, Some(64), Some(65536))

\* PORTSC of a powered port with nothing attached.
PORTSC_POWERED == 512

\* The driver after Xhc::initialize, every port powered and empty.
XhcNew ==
    [OFFSET |-> SegmentTableAlloc.offset,
     port_config_phase |-> [i \in 0..MaxPorts |-> "NotConnected"],
     addressing_port |-> None,
     command_ring |-> RingInitialize(CommandRingAlloc.ptr, COMMAND_RING_LEN),
     devices |-> ArrayMapNew(DEVICES_CAPACITY),
     dcbaa |-> [i \in 0..NUM_DEVICE_SLOTS |-> 0],
     portsc |-> [p \in Ports |-> PORTSC_POWERED],
     doorbell |-> [i \in 0..MaxSlots |-> [rings |-> 0, target |-> 0, stream_id |-> 0]],
     result |-> Ok, halted |-> "no", observed |-> <<>>]

\* The driver's state is s.
XhcIs(s) ==
    /\ OFFSET = s.OFFSET
    /\ port_config_phase = s.port_config_phase
    /\ addressing_port = s.addressing_port
    /\ command_ring = s.command_ring
    /\ devices = s.devices
    /\ dcbaa = s.dcbaa
    /\ portsc = s.portsc
    /\ doorbell = s.doorbell
    /\ result = s.result
    /\ halted = s.halted
    /\ sink = s.observed

InitXhc == XhcIs(XhcNew) /\ completed = {}

\* No producer ring and no event ring is exercised apart from the driver.
NoRing ==
    /\ ring_impl = "none"
    /\ ring = RingNew
    /\ pushes = 0
    /\ copy = [pc |-> "idle"]
    /\ hc_seen = None

NoEventRing ==
    /\ evr_impl = "none"
    /\ evr = [len |-> 0]
    /\ erdp = 0
    /\ hw = [enqueue |-> 0, cycle |-> TRUE, produced |-> 0]
    /\ consumed = 0
    /\ poll = [pc |-> "idle"]

\* No class driver is exercised apart from the driver, and the interrupt
\* handler is not part of the run.
NoMouse == mouse = None
NoIrq == irq = None
NoBoot == boot = None
NoLate == hc = None /\ walk = None /\ pool = None
NoMore == mainline = None /\ NoLate
NoPure == mem = None /\ amap = None /\ conv = None /\ NoMore
NoBench == NoMouse /\ NoIrq /\ NoBoot /\ NoPure

----------------------------------------------------------------------------
(* Inputs of the handlers *)

\* The speed ids a port may report: High Speed, and an id PortSpeed rejects.
InputSpeeds == {HIGH_SPEED, 0}

\* Completion codes of a TransferEvent: Success, Short Packet, and USB
\* Transaction Error.
InputCompletionCodes == {1, 13, 4}

\* What a device may have left at data_buf: a device descriptor, the
\* configuration of a HID boot mouse (configuration, interface, HID and
\* endpoint descriptor), or nothing.
DeviceDescriptorBytes == <<18, 1, 0, 2, 0, 0, 0, 64, 0, 0, 0, 0, 0, 0, 0, 0, 0, 1>>
ConfigurationBytes ==
    <<9, 2, 34, 0, 1, 1, 0, 160, 50>> \o <<9, 4, 0, 0, 1, 3, 1, 2, 0>>
    \o <<9, 33, 17, 1, 0, 1, 34, 52, 0>> \o <<7, 5, 129, 3, 4, 0, 10>>
\* The configuration of a device whose first interface is a HID boot keyboard
\* and whose second interface is a HID boot mouse.
KeyboardMouseBytes ==
    <<9, 2, 59, 0, 2, 1, 0, 160, 50>> \o <<9, 4, 0, 0, 1, 3, 1, 1, 0>>
    \o <<9, 33, 17, 1, 0, 1, 34, 52, 0>> \o <<7, 5, 129, 3, 8, 0, 10>>
    \o <<9, 4, 1, 0, 1, 3, 1, 2, 0>>
    \o <<9, 33, 17, 1, 0, 1, 34, 52, 0>> \o <<7, 5, 130, 3, 4, 0, 10>>
InputReplies == {DeviceDescriptorBytes, ConfigurationBytes, KeyboardMouseBytes, <<>>}

----------------------------------------------------------------------------
(* The handlers of Xhc and the steps of the controller *)

\* main.rs calls configure_port for a port.
ConfigurePort(p) ==
    /\ halted = "no"
    /\ \E enabled \in BOOLEAN : Becomes(ConfigurePortOp(St, p, enabled))

\* process_event dispatches a PortStatusChangeEvent.
OnPortStatusChangeEvent ==
    /\ halted = "no"
    /\ \E port_id \in Ports, enabled \in BOOLEAN :
          Becomes(OnPortStatusChangeEventOp(St, HwPortStatusChangeEvent(port_id), enabled))

\* process_event dispatches a CommandCompletionEvent that points into the
\* command ring.
OnCommandCompletionEvent ==
    /\ halted = "no"
    /\ \E slot_id \in SlotIds, i \in 0..MaxCmdIdx, enabled \in BOOLEAN :
          Becomes(OnCommandCompletionEventOp(
                      St,
                      HwCommandCompletionEvent(slot_id, command_ring.buffer + SIZE_OF_TRB * i),
                      enabled))

\* The address of slot i of the default control pipe ring of the slot's device.
TransferRingSlot(slot_id, i) ==
    Unwrap(ArrayMapGet(Unwrap(FindBySlot(St, slot_id)).transfer_rings,
                       DEFAULT_CONTROL_PIPE_ID)).buffer + SIZE_OF_TRB * i

\* process_event dispatches a TransferEvent for a slot that has no device.
OnTransferEventNoDevice ==
    /\ halted = "no"
    /\ \E slot_id \in SlotIds :
          /\ FindBySlot(St, slot_id) = None
          /\ Becomes(OnTransferEventOp(
                         St, HwTransferEvent(slot_id, DEFAULT_CONTROL_PIPE_ID, 0, 1, 0), <<>>))

\* The control transfers issued on the default control pipe of a device: the
\* addresses of the data stage and status stage TRBs of its ring that
\* interrupt on completion.
IssuedKeys(d) ==
    LET tr == ArrayMapGet(d.transfer_rings, DEFAULT_CONTROL_PIPE_ID)
    IN  IF tr = None THEN {}
        ELSE {Unwrap(tr).buffer + SIZE_OF_TRB * i :
                 i \in {j \in DOMAIN Unwrap(tr).mem :
                            /\ TrbType(Unwrap(tr).mem[j]) \in {TYPE_DATA_STAGE, TYPE_STATUS_STAGE}
                            /\ TrbGetBit(Unwrap(tr).mem[j], 101)}}

\* process_event dispatches a TransferEvent of the default control pipe; the
\* residual is what the reply left of the 256 bytes asked for.  An event with
\* a completion code the handler accepts completes the control transfer it
\* points to.  The controller has events only for a pipe that has a ring.
OnTransferEvent ==
    /\ halted = "no"
    /\ \E slot_id \in SlotIds :
          /\ IsSome(FindBySlot(St, slot_id))
          /\ IsSome(ArrayMapGet(Unwrap(FindBySlot(St, slot_id)).transfer_rings,
                                DEFAULT_CONTROL_PIPE_ID))
          /\ \E i \in 0..MaxTrbIdx, code \in InputCompletionCodes, b \in InputReplies :
                /\ BecomesXhc(OnTransferEventOp(
                               St,
                               HwTransferEvent(slot_id, DEFAULT_CONTROL_PIPE_ID,
                                               TransferRingSlot(slot_id, i), code,
                                               DATA_BUF_LEN - Len(b)),
                               b))
                /\ completed' =
                      IF /\ code \in {1, 13}
                         /\ TransferRingSlot(slot_id, i)
                               \in IssuedKeys(Unwrap(FindBySlot(St, slot_id)))
                      THEN completed \cup {<<slot_id, TransferRingSlot(slot_id, i)>>}
                      ELSE completed

\* A device is attached to a port: CCS, CSC and the speed id are set.
HwConnect(p) ==
    /\ ~PortIsConnected(portsc[p])
    /\ \E speed \in InputSpeeds :
          portsc' = [portsc EXCEPT
                        ![p] = SetBit(SetBit(SetBits(@, 10, 4, speed), 0, TRUE), 17, TRUE)]
    /\ UNCHANGED <<OFFSET, port_config_phase, addressing_port, command_ring, devices,
                   dcbaa, doorbell, result, halted, completed, sink,
                   ringVars, evrVars, benchVars>>

\* The device is detached: CCS, PED and the speed id are cleared, CSC is set.
HwDisconnect(p) ==
    /\ PortIsConnected(portsc[p])
    /\ portsc' = [portsc EXCEPT
                     ![p] = SetBit(SetBit(SetBit(SetBits(@, 10, 4, 0), 0, FALSE),
                                          1, FALSE), 17, TRUE)]
    /\ UNCHANGED <<OFFSET, port_config_phase, addressing_port, command_ring, devices,
                   dcbaa, doorbell, result, halted, completed, sink,
                   ringVars, evrVars, benchVars>>

\* What the controller does to the driver's memory when it executes an
\* AddressDevice command for a slot.
HwAddressDeviceOp(s, slot_id) ==
    [s EXCEPT !.devices =
        ArrayMapUpdate(@, slot_id,
            [Unwrap(FindBySlot(s, slot_id)) EXCEPT
                !.device_ctx.slot_context =
                    Unwrap(FindBySlot(s, slot_id)).input_ctx.slot_context])]

\* The AddressDevice commands of the command ring for a slot.
AddressCommands(slot_id) ==
    {i \in DOMAIN command_ring.mem :
        /\ TrbType(command_ring.mem[i]) = TYPE_ADDRESS_DEVICE_COMMAND
        /\ TrbGetBits(command_ring.mem[i], 120, 8) = slot_id}

\* The controller executes an AddressDevice command: it copies the slot
\* context of the input context to the slot's device context.
HwAddressDevice(slot_id) ==
    /\ IsSome(FindBySlot(St, slot_id))
    /\ AddressCommands(slot_id) # {}
    /\ LET d == Unwrap(FindBySlot(St, slot_id))
       IN  d.device_ctx.slot_context # d.input_ctx.slot_context
    /\ devices' = HwAddressDeviceOp(St, slot_id).devices
    /\ UNCHANGED <<OFFSET, port_config_phase, addressing_port, command_ring,
                   dcbaa, portsc, doorbell, result, halted, completed, sink,
                   ringVars, evrVars, benchVars>>

Init == InitXhc /\ NoRing /\ NoEventRing /\ NoBench

Next ==
    \/ \E p \in Ports : ConfigurePort(p)
    \/ OnPortStatusChangeEvent
    \/ OnCommandCompletionEvent
    \/ OnTransferEventNoDevice
    \/ OnTransferEvent
    \/ \E p \in Ports : HwConnect(p)
    \/ \E p \in Ports : HwDisconnect(p)
    \/ \E slot_id \in SlotIds : HwAddressDevice(slot_id)

vars == <<xhcVars, ringVars, evrVars, benchVars>>

Spec == Init /\ [][Next]_vars

----------------------------------------------------------------------------
(* Serialized addressing *)

AddressingPhases == {"ResettingPort", "EnablingSlot", "AddressingDevice"}

PortsBeingAddressed ==
    {p \in DOMAIN port_config_phase : port_config_phase[p] \in AddressingPhases}

\* C1: in every reachable state at most one port is in ResettingPort,
\* EnablingSlot or AddressingDevice, and while there is such a port
\* addressing_port is Some of that port.
C1_SingleAddressing ==
    /\ Cardinality(PortsBeingAddressed) <= 1
    /\ \A p \in PortsBeingAddressed : addressing_port = Some(p)

\* A port is being addressed while another port waits for its turn.
C1_Witness ==
    \E p, q \in Ports :
        /\ p # q
        /\ port_config_phase[p] = "AddressingDevice"
        /\ port_config_phase[q] = "WaitingAddressed"
        /\ addressing_port = Some(p)

\* The slots whose device context names port p as root hub port.
SlotsOfPort(p) ==
    {slot_id \in SlotIds :
        /\ IsSome(FindBySlot(St, slot_id))
        /\ DevPortId(St, slot_id) = p}

\* A step in which the CommandCompletionEvent of an AddressDeviceCommand is
\* handled for a slot bound to port p, the port being addressed.
AddressDeviceCompletes(p, slot_id) ==
    /\ addressing_port = Some(p)
    /\ port_config_phase[p] = "AddressingDevice"
    /\ slot_id \in SlotsOfPort(p)
    /\ \E i \in 0..MaxCmdIdx, enabled \in BOOLEAN :
          /\ TrbType(command_ring.mem[i]) = TYPE_ADDRESS_DEVICE_COMMAND
          /\ Becomes(OnCommandCompletionEventOp(
                         St,
                         HwCommandCompletionEvent(slot_id,
                                                  command_ring.buffer + SIZE_OF_TRB * i),
                         enabled))

\* C2: when the AddressDeviceCommand of the addressing port completes while
\* that port is in AddressingDevice and connected ports wait in
\* WaitingAddressed, one waiting port becomes addressing_port and enters
\* ResettingPort.
C2_WaitingPortIsReset ==
    [][\A p \in Ports, slot_id \in SlotIds :
          (/\ AddressDeviceCompletes(p, slot_id)
           /\ \E q \in Ports : port_config_phase[q] = "WaitingAddressed"
           /\ \A q \in Ports : port_config_phase[q] = "WaitingAddressed"
                                   => PortIsConnected(portsc[q]))
          => \E q \in Ports :
                /\ port_config_phase[q] = "WaitingAddressed"
                /\ port_config_phase'[q] = "ResettingPort"
                /\ addressing_port' = Some(q)]_vars

\* The control-IN GetDescriptor(Device, 256) at the start of a transfer ring:
\* setup stage, data stage into data_buf, status stage.
HoldsGetDeviceDescriptor(tr, data_buf) ==
    /\ TrbGetBits(tr.mem[0], 106, 6) = 2
    /\ TrbGetBits(tr.mem[0], 0, 8) = 128
    /\ TrbGetBits(tr.mem[0], 8, 8) = 6
    /\ TrbGetBits(tr.mem[0], 16, 16) = 256
    /\ TrbGetBits(tr.mem[0], 32, 16) = 0
    /\ TrbGetBits(tr.mem[0], 48, 16) = 256
    /\ TrbGetBits(tr.mem[0], 112, 2) = 3
    /\ TrbGetBits(tr.mem[1], 106, 6) = 3
    /\ tr.mem[1][1] = data_buf
    /\ TrbGetBits(tr.mem[1], 64, 17) = 256
    /\ TrbGetBit(tr.mem[1], 112)
    /\ TrbGetBits(tr.mem[2], 106, 6) = 4
    /\ \A i \in 0..2 : TrbGetBit(tr.mem[i], 96)

\* C3: after the CommandCompletionEvent of an AddressDeviceCommand is handled
\* for the slot bound to the addressing port p in AddressingDevice,
\* addressing_port is None, p is in InitializingDevice, the device is in
\* initialize_phase 1, GetDescriptor(Device, 256) is on the slot's endpoint-1
\* transfer ring and the slot's doorbell has been rung.
C3_AddressDeviceCompletion ==
    [][\A p \in Ports, slot_id \in SlotIds :
          AddressDeviceCompletes(p, slot_id)
          => LET d == Unwrap(ArrayMapGet(devices', slot_id))
                 tr == Unwrap(ArrayMapGet(d.transfer_rings, DEFAULT_CONTROL_PIPE_ID))
             IN  /\ addressing_port' = None
                 /\ port_config_phase'[p] = "InitializingDevice"
                 /\ d.initialize_phase = 1
                 /\ HoldsGetDeviceDescriptor(tr, d.data_buf)
                 /\ doorbell'[slot_id].rings = doorbell[slot_id].rings + 1
                 /\ doorbell'[slot_id].target = DEFAULT_CONTROL_PIPE_ID]_vars

----------------------------------------------------------------------------
(* The order of the configuration phases *)

----------------------------------------------------------------------------
(* configure_port and a port status change on a port in NotConnected *)

\* A step of configure_port(p), and of a PortStatusChangeEvent for port p.
ConfigurePortStep(p) == ConfigurePort(p)

PortStatusChangeStep(p) ==
    /\ halted = "no"
    /\ \E enabled \in BOOLEAN :
          Becomes(OnPortStatusChangeEventOp(St, HwPortStatusChangeEvent(p), enabled))

\* What reset_port is to do to a port in NotConnected.
ResetsOrWaits(p) ==
    IF ~PortIsConnected(portsc[p])
    THEN UNCHANGED <<OFFSET, port_config_phase, addressing_port, command_ring,
                     devices, dcbaa, portsc, doorbell, halted>>
    ELSE IF addressing_port = None
    THEN /\ addressing_port' = Some(p)
         /\ port_config_phase' = [port_config_phase EXCEPT ![p] = "ResettingPort"]
         /\ PortIsPortResetChanged(portsc'[p])
         /\ ~GetBit(portsc'[p], 4)
         /\ ~GetBit(portsc'[p], 17)
         /\ PortIsConnected(portsc'[p])
         /\ \A q \in Ports \ {p} : portsc'[q] = portsc[q]
         /\ UNCHANGED <<OFFSET, command_ring, devices, dcbaa, doorbell, halted>>
    ELSE /\ port_config_phase' = [port_config_phase EXCEPT ![p] = "WaitingAddressed"]
         /\ UNCHANGED <<OFFSET, addressing_port, command_ring, devices, dcbaa,
                        portsc, doorbell, halted>>

\* C5: configure_port, and a PortStatusChangeEvent, for a port in NotConnected
\* makes a connected port the addressing port in ResettingPort with PORTSC
\* reset when addressing_port is None, only puts it in WaitingAddressed when
\* addressing_port is Some, and changes nothing when the port is not
\* connected; configure_port for a port in another phase changes nothing.
C5_ConfigurePort ==
    [][\A p \in Ports :
          /\ (/\ port_config_phase[p] = "NotConnected"
              /\ (ConfigurePortStep(p) \/ PortStatusChangeStep(p)))
                => ResetsOrWaits(p)
          /\ (port_config_phase[p] # "NotConnected" /\ ConfigurePortStep(p))
                => UNCHANGED <<OFFSET, port_config_phase, addressing_port, command_ring,
                               devices, dcbaa, portsc, doorbell, halted>>]_vars

\* One port has been reset as the addressing port and a second connected
\* port has been put in WaitingAddressed behind it.
C5_Witness ==
    \E p, q \in Ports :
        /\ port_config_phase[p] = "ResettingPort"
        /\ addressing_port = Some(p)
        /\ PortIsPortResetChanged(portsc[p])
        /\ port_config_phase[q] = "WaitingAddressed"
        /\ PortIsConnected(portsc[q])

----------------------------------------------------------------------------
(* The setup stage map of a device *)

\* The control transfers of a slot's device that are issued and not completed.
Outstanding(slot_id) ==
    IssuedKeys(Unwrap(FindBySlot(St, slot_id)))
        \ {k[2] : k \in {c \in completed : c[1] = slot_id}}

\* C10: setup_stage_map is balanced: it holds exactly one entry for every
\* control transfer issued and not yet completed, keyed by the pointer of the
\* data stage (or status stage) TRB; the first TransferEvent with that pointer
\* removes that entry and no other, and the map is empty once every issued
\* control transfer has completed.
C10_SetupStageMapBalanced ==
    \A slot_id \in SlotIds :
        IsSome(FindBySlot(St, slot_id))
        => LET m == Unwrap(FindBySlot(St, slot_id)).setup_stage_map
           IN  /\ ArrayMapKeys(m) = Outstanding(slot_id)
               /\ \A k \in Outstanding(slot_id) : Cardinality(ArrayMapHits(m, k)) = 1

----------------------------------------------------------------------------
(* The initialization phases of a device *)

\* The requests of the control transfers a device issues while it is set up.
InputSetupData ==
    {SetupDataNew(RequestTypeNew(DIRECTION_IN, TYPE_STANDARD, RECIPIENT_DEVICE),
                  REQUEST_GET_DESCRIPTOR, 256 * DESCRIPTOR_TYPE_DEVICE, 0, DATA_BUF_LEN),
     SetupDataNew(RequestTypeNew(DIRECTION_IN, TYPE_STANDARD, RECIPIENT_DEVICE),
                  REQUEST_GET_DESCRIPTOR, 256 * DESCRIPTOR_TYPE_CONFIGURATION, 0, DATA_BUF_LEN),
     SetupDataNew(RequestTypeNew(DIRECTION_OUT, TYPE_STANDARD, RECIPIENT_DEVICE),
                  REQUEST_SET_CONFIGURATION, 1, 0, 0),
     SetupDataNew(RequestTypeNew(DIRECTION_OUT, TYPE_CLASS, RECIPIENT_INTERFACE),
                  REQUEST_SET_PROTOCOL, 0, 0, 0)}

\* The completion the phase waits for: the Device descriptor in reply to
\* GetDescriptor in phase 1, the Configuration descriptor in reply to
\* GetDescriptor in phase 2, SetConfiguration in phase 3.
PhaseMatches(phase, setup_data, b) ==
    \/ /\ phase = 1
       /\ SetupDataRequest(setup_data) = 6
       /\ Len(b) > 1 /\ b[2] = 1
    \/ /\ phase = 2
       /\ SetupDataRequest(setup_data) = 6
       /\ Len(b) > 1 /\ b[2] = 2
    \/ /\ phase = 3
       /\ SetupDataRequest(setup_data) = 9

\* What a completed control transfer may do to the phase of device d.
PhaseStepOfCompletion(d, setup_data, b) ==
    LET r == OnControlCompleted(Ctx(d, [rings |-> 0, target |-> 0, stream_id |-> 0], OFFSET),
                                setup_data, Some(b), Len(b)).d
    IN  /\ r.initialize_phase # d.initialize_phase
            => /\ PhaseMatches(d.initialize_phase, setup_data, b)
               /\ r.initialize_phase = d.initialize_phase + 1
        /\ ~PhaseMatches(d.initialize_phase, setup_data, b)
            => /\ r.initialize_phase = d.initialize_phase
               /\ r.is_initialized = d.is_initialized
        /\ r.is_initialized <=> r.initialize_phase = 4

\* start_initialize runs in this step: the port addressed starts its
\* device's initialization.
StartInitializeStep ==
    \E p \in Ports : /\ port_config_phase[p] = "AddressingDevice"
                     /\ port_config_phase'[p] = "InitializingDevice"

ConfigurationReplyCompletes(slot_id, b) ==
    /\ halted = "no"
    /\ IsSome(FindBySlot(St, slot_id))
    /\ Unwrap(FindBySlot(St, slot_id)).initialize_phase = 2
    /\ ~Unwrap(FindBySlot(St, slot_id)).is_initialized
    /\ Len(b) > 1 /\ b[2] = 2
    /\ \E i \in 0..MaxTrbIdx :
          LET d == Unwrap(FindBySlot(St, slot_id))
              setup == ArrayMapGet(d.setup_stage_map, TransferRingSlot(slot_id, i))
          IN  /\ IsSome(setup)
              /\ TrbGetBits(DevDeref(d, Unwrap(setup)), 8, 8) = 6
              /\ BecomesXhc(OnTransferEventOp(
                                St,
                                HwTransferEvent(slot_id, DEFAULT_CONTROL_PIPE_ID,
                                                TransferRingSlot(slot_id, i), 1,
                                                DATA_BUF_LEN - Len(b)),
                                b))

\* C12: when the GetDescriptor reply a device in phase 2 waits for is a
\* Configuration descriptor, the device goes to phase 3 and issues
\* SetConfiguration(configuration_value) on the default control pipe,
\* whatever interfaces the configuration holds.
C12_ConfigurationReply ==
    [][\A slot_id \in SlotIds, b \in InputReplies :
          ConfigurationReplyCompletes(slot_id, b)
          => LET d0 == Unwrap(ArrayMapGet(devices, slot_id))
                 d1 == Unwrap(ArrayMapGet(devices', slot_id))
                 tr0 == Unwrap(ArrayMapGet(d0.transfer_rings, DEFAULT_CONTROL_PIPE_ID))
                 tr1 == Unwrap(ArrayMapGet(d1.transfer_rings, DEFAULT_CONTROL_PIPE_ID))
                 setup == tr1.mem[tr0.write_index]
             IN  /\ d1.initialize_phase = 3
                 /\ TrbGetBits(setup, 106, 6) = 2
                 /\ TrbGetBits(setup, 0, 8) = 0
                 /\ TrbGetBits(setup, 8, 8) = 9
                 /\ TrbGetBits(setup, 16, 16) = b[6]
                 /\ doorbell'[slot_id].rings = doorbell[slot_id].rings + 1
                 /\ doorbell'[slot_id].target = DEFAULT_CONTROL_PIPE_ID]_vars

----------------------------------------------------------------------------
(* The descriptor walk over a configuration *)

\* The offsets of the descriptors of a configuration buffer, each descriptor
\* as long as its first byte says, from offset at on.
RECURSIVE DescriptorOffsets(_, _)
DescriptorOffsets(b, at) ==
    IF at >= Len(b) \/ b[at + 1] = 0 THEN {}
    ELSE {at} \cup DescriptorOffsets(b, at + b[at + 1])

\* The Interface descriptors of class 3, subclass 1, protocol 2.
MouseInterfaces(b) ==
    {at \in DescriptorOffsets(b, 0) :
        /\ b[at + 2] = 4
        /\ b[at + 6] = 3 /\ b[at + 7] = 1 /\ b[at + 8] = 2}

\* The Endpoint descriptors of the interface at offset at: the first
\* num_endpoints of them behind it, in the order of the buffer.
EndpointsOfInterface(b, at) ==
    LET eps == {e \in DescriptorOffsets(b, 0) : e > at /\ b[e + 2] = 5}
    IN  {e \in eps : Cardinality({f \in eps : f < e}) < b[at + 5]}

\* C13: the walk over a configuration reply binds a HID mouse driver to the
\* first Interface descriptor of class 3, subclass 1, protocol 2 and registers
\* exactly that interface's endpoints: ep_configs holds one entry per
\* Endpoint descriptor of the interface, and class_drivers maps the number of
\* each of these endpoints to a driver bound to the interface number.
C13_DescriptorWalk ==
    [][\A slot_id \in SlotIds, b \in InputReplies :
          (ConfigurationReplyCompletes(slot_id, b) /\ MouseInterfaces(b) # {})
          => LET d1 == Unwrap(ArrayMapGet(devices', slot_id))
                 at == Min(MouseInterfaces(b))
                 eps == EndpointsOfInterface(b, at)
             IN  /\ Len(d1.ep_configs) = Cardinality(eps)
                 /\ {EndpointIdNumber(d1.ep_configs[k].endpoint_id) :
                         k \in DOMAIN d1.ep_configs}
                       = {b[e + 3] % 16 : e \in eps}
                 /\ ArrayMapKeys(d1.class_drivers) = {b[e + 3] % 16 : e \in eps}
                 /\ \A n \in ArrayMapKeys(d1.class_drivers) :
                        d1.drivers[Unwrap(ArrayMapGet(d1.class_drivers, n))].interface_index
                            = b[at + 3]]_vars

----------------------------------------------------------------------------
(* The configured mouse.                                                    *)
(* initialize_phase2 stops at the Configuration descriptor its iterator     *)
(* yields first, so the handlers behind phase 2 are exercised from the      *)
(* state the function's statements leave once its loop is at the mouse      *)
(* interface of the reply.                                                  *)

\* The configuration of a HID boot mouse whose interface has an Interrupt-IN
\* endpoint 0x81 and an Interrupt-OUT endpoint 0x02.
MouseTwoEndpointBytes ==
    <<9, 2, 41, 0, 1, 1, 0, 160, 50>> \o <<9, 4, 0, 0, 2, 3, 1, 2, 0>>
    \o <<9, 33, 17, 1, 0, 1, 34, 52, 0>> \o <<7, 5, 129, 3, 4, 0, 10>>
    \o <<7, 5, 2, 3, 4, 0, 10>>

HidConfigurations == {ConfigurationBytes, MouseTwoEndpointBytes}

\* The 3-byte boot reports a mouse leaves at the driver's buf.
InputReports == {<<0, 254, 2>>, <<1, 127, 128>>, <<7, 0, 255>>}

\* initialize_phase2, lines 396-402 for each Endpoint descriptor of eps in
\* the order of the buffer.
RECURSIVE RegisterEndpoints(_, _, _, _)
RegisterEndpoints(c, b, eps, driver) ==
    IF eps = {} \/ c.result # Ok THEN c
    ELSE RegisterEndpoints(RegisterEndpoint(c, EndpointConfigFrom(b, Min(eps)), driver),
                           b, eps \ {Min(eps)}, driver)

Phase2WithDriver(cd, b, at) ==
    IF cd.c.halted # "no" \/ cd.driver = None THEN cd.c
    ELSE Phase2Registered(
             RegisterEndpoints(cd.c, b, EndpointsOfInterface(b, at), Unwrap(cd.driver)), b)

\* initialize_phase2 with its loop at the Interface descriptor at offset at:
\* ClassDriver::new, the registration of the interface's endpoints, phase 3
\* and SetConfiguration.
Phase2AtInterface(c, b, at) == Phase2WithDriver(ClassDriverNew(c, b, at), b, at)

\* The address of slot i of the command ring, and of the default control
\* pipe ring of a slot's device.
CommandSlot(s, i) == s.command_ring.buffer + SIZE_OF_TRB * i

ControlSlot(s, slot_id, i) ==
    Unwrap(ArrayMapGet(Unwrap(FindBySlot(s, slot_id)).transfer_rings,
                       DEFAULT_CONTROL_PIPE_ID)).buffer + SIZE_OF_TRB * i

\* A High Speed device on port p is taken through configure_port, the port
\* reset, EnableSlot (slot 1), AddressDevice and the device descriptor.
MouseAttached(p) ==
    [XhcNew EXCEPT
        !.portsc[p] = SetBit(SetBit(SetBits(@, 10, 4, HIGH_SPEED), 0, TRUE), 17, TRUE)]

MousePortReset(s, p) == OnPortStatusChangeEventOp(s, HwPortStatusChangeEvent(p), TRUE)

MouseSlotEnabled(s) ==
    OnCommandCompletionEventOp(s, HwCommandCompletionEvent(1, CommandSlot(s, 0)), TRUE)

MouseAddressed(s) ==
    OnCommandCompletionEventOp(s, HwCommandCompletionEvent(1, CommandSlot(s, 1)), TRUE)

MouseDeviceDescriptor(s) ==
    OnTransferEventOp(s,
        HwTransferEvent(1, DEFAULT_CONTROL_PIPE_ID, ControlSlot(s, 1, 1), 1,
                        DATA_BUF_LEN - Len(DeviceDescriptorBytes)),
        DeviceDescriptorBytes)

\* on_transfer_event_received for the configuration reply b, with
\* initialize_phase2 at the mouse interface of b.
MouseConfigurationDescriptor(s, b) ==
    DevDone(s, 1,
        Phase2AtInterface(
            [DevCtx(s, 1) EXCEPT
                !.d.setup_stage_map = ArrayMapRemove(@, ControlSlot(s, 1, 4)).map],
            b, Min(MouseInterfaces(b))))

MousePhase2(p) ==
    MouseDeviceDescriptor(MouseAddressed(HwAddressDeviceOp(
        MouseSlotEnabled(MousePortReset(ConfigurePortOp(MouseAttached(p), p, TRUE), p)), 1)))

MousePhase3(p, b) == MouseConfigurationDescriptor(MousePhase2(p), b)

MaxReports == 2

\* The two control transfers of phases 1 and 2 are completed.
MouseCompleted(s) == {<<1, ControlSlot(s, 1, 1)>>, <<1, ControlSlot(s, 1, 4)>>}

InitHid ==
    /\ \E p \in Ports, b \in HidConfigurations : XhcIs(MousePhase3(p, b))
    /\ completed = MouseCompleted(St)
    /\ NoRing /\ NoEventRing /\ NoBench

\* The Normal TRBs of the transfer rings of a device: the endpoint id of the
\* ring and the address of the TRB.
IssuedNormals(d) ==
    UNION {{<<Unwrap(d.transfer_rings[i])[1],
              Unwrap(d.transfer_rings[i])[2].buffer + SIZE_OF_TRB * j>> :
               j \in {k \in DOMAIN Unwrap(d.transfer_rings[i])[2].mem :
                          TrbType(Unwrap(d.transfer_rings[i])[2].mem[k]) = TYPE_NORMAL}} :
           i \in {k \in DOMAIN d.transfer_rings : IsSome(d.transfer_rings[k])}}

\* process_event dispatches the TransferEvent of a control transfer the
\* controller has not completed yet.
OnControlTransferEvent ==
    /\ halted = "no"
    /\ \E slot_id \in SlotIds :
          /\ IsSome(FindBySlot(St, slot_id))
          /\ \E ptr \in IssuedKeys(Unwrap(FindBySlot(St, slot_id))),
                code \in InputCompletionCodes :
                /\ <<slot_id, ptr>> \notin completed
                /\ BecomesXhc(OnTransferEventOp(
                        St, HwTransferEvent(slot_id, DEFAULT_CONTROL_PIPE_ID, ptr, code, 0),
                        <<>>))
                /\ completed' = IF code \in {1, 13}
                                 THEN completed \cup {<<slot_id, ptr>>}
                                 ELSE completed

\* process_event dispatches the TransferEvent of a Normal TRB the controller
\* has not completed yet; the mouse left a report at the buffer of the TRB.
OnInterruptTransferEvent ==
    /\ halted = "no"
    /\ Len(sink) < MaxReports
    /\ \E slot_id \in SlotIds :
          /\ IsSome(FindBySlot(St, slot_id))
          /\ \E issued \in IssuedNormals(Unwrap(FindBySlot(St, slot_id))),
                code \in InputCompletionCodes, b \in InputReports :
                /\ <<slot_id, issued[2]>> \notin completed
                /\ BecomesXhc(OnTransferEventOp(
                        St, HwTransferEvent(slot_id, issued[1], issued[2], code, 0), b))
                /\ completed' = IF code \in {1, 13}
                                 THEN completed \cup {<<slot_id, issued[2]>>}
                                 ELSE completed

NextHid ==
    \/ OnCommandCompletionEvent
    \/ OnControlTransferEvent
    \/ OnInterruptTransferEvent

SpecHid == InitHid /\ [][NextHid]_vars

\* A step in which the CommandCompletionEvent of a ConfigureEndpointCommand
\* is handled for a slot whose port is in ConfiguringEndpoints.
ConfigureEndpointCompletes(slot_id) ==
    /\ halted = "no"
    /\ IsSome(FindBySlot(St, slot_id))
    /\ port_config_phase[DevPortId(St, slot_id)] = "ConfiguringEndpoints"
    /\ \E i \in 0..MaxCmdIdx, enabled \in BOOLEAN :
          /\ TrbType(command_ring.mem[i]) = TYPE_CONFIGURE_ENDPOINT_COMMAND
          /\ Becomes(OnCommandCompletionEventOp(
                         St, HwCommandCompletionEvent(slot_id, CommandSlot(St, i)), enabled))

\* The interface numbers of the HID interfaces a device has drivers for.
HidInterfaces(d) == {d.drivers[p].interface_index : p \in DOMAIN d.drivers}

InterruptCompletes(slot_id, issued, b) ==
    /\ halted = "no"
    /\ IsSome(FindBySlot(St, slot_id))
    /\ issued \in IssuedNormals(Unwrap(FindBySlot(St, slot_id)))
    /\ EndpointIdIsIn(issued[1])
    /\ IsSome(ArrayMapGet(Unwrap(FindBySlot(St, slot_id)).class_drivers,
                          EndpointIdNumber(issued[1])))
    /\ \E code \in {1, 13} :
          BecomesXhc(OnTransferEventOp(
              St, HwTransferEvent(slot_id, issued[1], issued[2], code, 0), b))

\* The Normal TRBs of the rings of all devices.
AllIssuedNormals ==
    UNION {IssuedNormals(Unwrap(FindBySlot(St, slot_id))) :
              slot_id \in {i \in SlotIds : IsSome(FindBySlot(St, i))}}

\* The driver a device registered for an endpoint.
DriverOf(d, endpoint_id) ==
    d.drivers[Unwrap(ArrayMapGet(d.class_drivers, EndpointIdNumber(endpoint_id)))]

\* C15: a successful TransferEvent whose issuer is a Normal TRB on an IN
\* endpoint with a registered class driver calls the class driver once (the
\* sink receives one report) and pushes one Normal TRB (the driver's buffer,
\* length 3, IOC and ISP set) on the driver's interrupt-IN ring, with one
\* doorbell ring of that endpoint; no other ring of the device changes.
C15_InterruptRearms ==
    [][\A slot_id \in SlotIds, issued \in AllIssuedNormals, b \in InputReports :
          InterruptCompletes(slot_id, issued, b)
          => LET d0 == Unwrap(ArrayMapGet(devices, slot_id))
                 d1 == Unwrap(ArrayMapGet(devices', slot_id))
                 drv == DriverOf(d0, issued[1])
                 tr0 == Unwrap(ArrayMapGet(d0.transfer_rings, drv.endpoint_interrupt_in))
                 tr1 == Unwrap(ArrayMapGet(d1.transfer_rings, drv.endpoint_interrupt_in))
                 trb == tr1.mem[tr0.write_index]
             IN  /\ Len(sink') = Len(sink) + 1
                 /\ tr1.write_index = tr0.write_index + 1
                 /\ tr1.mem = [tr0.mem EXCEPT ![tr0.write_index] = trb]
                 /\ TrbType(trb) = TYPE_NORMAL
                 /\ TrbGetPtr(trb) = drv.buf
                 /\ TrbGetBits(trb, 64, 17) = 3
                 /\ TrbGetBit(trb, 101) /\ TrbGetBit(trb, 98)
                 /\ \A other \in ArrayMapKeys(d0.transfer_rings) \ {drv.endpoint_interrupt_in} :
                        ArrayMapGet(d1.transfer_rings, other)
                            = ArrayMapGet(d0.transfer_rings, other)
                 /\ doorbell'[slot_id].rings = doorbell[slot_id].rings + 1
                 /\ doorbell'[slot_id].target = drv.endpoint_interrupt_in]_vars

\* A report was delivered and the transfer that replaces the completed one
\* is outstanding.
C15_Witness ==
    \E slot_id \in SlotIds :
        /\ IsSome(FindBySlot(St, slot_id))
        /\ sink # <<>>
        /\ \E n1, n2 \in IssuedNormals(Unwrap(FindBySlot(St, slot_id))) :
               /\ <<slot_id, n1[2]>> \in completed
               /\ <<slot_id, n2[2]>> \notin completed
               /\ n2[2] > n1[2]

\* The TRBs of a device's rings a TransferEvent may point to: endpoint id
\* and address of the control stages that interrupt on completion and of
\* the Normal TRBs.
EventTargets(d) ==
    {<<DEFAULT_CONTROL_PIPE_ID, ptr>> : ptr \in IssuedKeys(d)} \cup IssuedNormals(d)

\* The completion codes but Success and Short Packet; the codes from 128 on
\* (reserved and vendor defined) are left out, the dwords of a TRB being kept
\* below bit 31.
FailureCodes == (0..127) \ {1, 13}

\* C16: in every reachable state of a device, on_transfer_event_received
\* answers a TransferEvent whose completion code is neither 1 nor 13 with
\* TransferFailed and changes nothing: the device (initialize_phase,
\* is_initialized, rings, maps) and the doorbell register are as before and
\* the sink is not called.
C16_FailedTransferRejected ==
    \A slot_id \in {i \in SlotIds : IsSome(FindBySlot(St, i))} :
        \A target \in EventTargets(Unwrap(FindBySlot(St, slot_id))),
           code \in FailureCodes, b \in InputReports :
            LET c == DevCtx(St, slot_id)
                r == OnTransferEventReceived(
                         c, HwTransferEvent(slot_id, target[1], target[2], code, 0), b)
            IN  /\ r.result = Err("TransferFailed")
                /\ r.d = c.d
                /\ r.db = c.db
                /\ r.OFFSET = c.OFFSET
                /\ r.observed = <<>>
                /\ r.halted = "no"

\* A failed TransferEvent was handled for a device that has an interrupt
\* transfer outstanding.
C16_Witness ==
    /\ result = DeviceError(Err("TransferFailed"))
    /\ \E slot_id \in {i \in SlotIds : IsSome(FindBySlot(St, i))} :
          \E n \in IssuedNormals(Unwrap(FindBySlot(St, slot_id))) :
              <<slot_id, n[2]>> \notin completed

----------------------------------------------------------------------------
(* usb/classdriver/mod.rs: HidMouseDriver exercised apart *)

\* The bytes drawn for the receive buffer: every value of one movement byte
\* with the other at an edge of the i8 range, and the button byte at its
\* ends.
EdgeBytes == {0, 2, 127, 128, 254, 255}
ButtonBytes == {0, 7, 255}
ReceiveBuffers ==
    {<<b0, b1, b2>> : b0 \in ButtonBytes, b1 \in 0..255, b2 \in EdgeBytes}
        \cup {<<b0, b1, b2>> : b0 \in ButtonBytes, b1 \in EdgeBytes, b2 \in 0..255}

\* The endpoints the completion is reported for: 1 and 2, OUT and IN.
MouseEndpointIds == {EndpointIdFrom(n, dir_in) : n \in 1..2, dir_in \in BOOLEAN}

\* The completions handled by one driver.
MaxCompletions == 2

\* A HidMouseDriver whose buf the device filled, and the endpoint of the
\* completions to come.
InitMouse ==
    /\ InitXhc
    /\ NoRing /\ NoEventRing
    /\ NoIrq /\ NoBoot /\ NoPure
    /\ \E b \in ReceiveBuffers, ep_id \in MouseEndpointIds :
          mouse = Some([buf |-> b, ep_id |-> ep_id, calls |-> 0])

\* ClassDriver::on_interrupt_completed: the HidMouseDriver behind the pointer
\* handles the completion and the result is Ok(()).
ClassDriverOnInterruptCompleted ==
    /\ mouse # None
    /\ Unwrap(mouse).calls < MaxCompletions
    /\ sink' = sink \o HidMouseOnInterruptCompleted([observed |-> <<>>],
                                                    Unwrap(mouse).ep_id,
                                                    Unwrap(mouse).buf).observed
    /\ mouse' = Some([Unwrap(mouse) EXCEPT !.calls = @ + 1])
    /\ result' = Ok
    /\ UNCHANGED <<OFFSET, port_config_phase, addressing_port, command_ring, devices,
                   dcbaa, portsc, doorbell, halted, completed, ringVars, evrVars,
                   irq, boot, pureVars>>

NextMouse == ClassDriverOnInterruptCompleted

SpecMouse == InitMouse /\ [][NextMouse]_vars

\* The value of a byte reinterpreted as a signed 8-bit integer: the one
\* integer of -128..127 congruent to it modulo 256.
Signed8(byte) == CHOOSE v \in -128..127 : (v - byte) % 256 = 0

\* C17: for every receive buffer [b0, b1, b2] and every completion on an IN
\* endpoint the mouse driver calls the sink exactly once with (b1 as i8,
\* b2 as i8), whatever b0 is, so [0x00, 0xFE, 0x02] delivers (-2, 2); for an
\* OUT endpoint the sink is not called.
C17_MouseReport ==
    mouse # None =>
        LET m == Unwrap(mouse)
        IN  IF m.ep_id % 2 = 1
            THEN /\ Len(sink) = m.calls
                 /\ \A i \in 1..Len(sink) :
                       sink[i] = <<Signed8(m.buf[2]), Signed8(m.buf[3])>>
                 /\ (m.buf = <<0, 254, 2>> /\ m.calls > 0) => sink[1] = <<-2, 2>>
            ELSE sink = <<>>

\* The example of the claim was delivered: one completion on an IN endpoint
\* with [0x00, 0xFE, 0x02] in the buffer called the sink with (-2, 2).
C17_Witness ==
    /\ mouse # None
    /\ Unwrap(mouse).buf = <<0, 254, 2>>
    /\ Unwrap(mouse).ep_id % 2 = 1
    /\ Unwrap(mouse).calls = 1
    /\ sink = << <<-2, 2>> >>

----------------------------------------------------------------------------
(* usb/trb/ring.rs: the producer Ring of the trb module *)

\* GenericTrb::cycle_bit and set_cycle_bit: bit 96.
GenericTrbCycleBit(t) == TrbGetBit(t, 96)

GenericTrbSetCycleBit(t, b) == TrbSetBit(t, 96, b)

\* LinkTrb::new of usb/trb/mod.rs: type, ring segment pointer, toggle_cycle.
TrbLinkTrbNew(ring_segment_pointer) ==
    TrbSetBit(TrbSetPtr4(WithType(TYPE_LINK), ring_segment_pointer), 97, TRUE)

\* The dwords of a slot in a store order that writes the cycle dword first.
StoreOrderCycleFirst == <<4, 1, 2, 3>>

\* copy_to_last: the dword each of its four write_volatile calls stores.
StoreOrder == <<1, 2, 3, 4>>

\* A slot after the first k stores of copy_to_last of trb.
SlotAfterStores(slot, trb, k) ==
    [i \in 1..4 |-> IF \E j \in 1..k : StoreOrder[j] = i THEN trb[i] ELSE slot[i]]

\* Ring::initialize with the pointer allocate_array returned (zeroed slots).
TrbRingInitialize(ptr, len) ==
    [buffer |-> ptr, len |-> len, cycle_bit |-> TRUE, write_index |-> 0,
     mem |-> [i \in 0..(len - 1) |-> ZeroTrb]]

\* Ring::copy_to_last, all four stores done.
TrbRingCopyToLast(r, trb) ==
    [r EXCEPT !.mem[r.write_index] =
                  SlotAfterStores(@, GenericTrbSetCycleBit(trb, r.cycle_bit), 4)]

\* Ring::push: the ring afterwards.
TrbRingPush(r, trb) ==
    LET r1 == TrbRingCopyToLast(r, trb)
        r2 == [r1 EXCEPT !.write_index = @ + 1]
    IN  IF r2.write_index = r2.len - 1
        THEN LET r3 == TrbRingCopyToLast(r2, TrbLinkTrbNew(r2.buffer))
             IN  [r3 EXCEPT !.write_index = 0, !.cycle_bit = ~@]
        ELSE r2

----------------------------------------------------------------------------
(* A producer ring on its own: pushes into rings of two to MaxRingLen slots *)

MaxRingLen == 4
MaxPushes == 7

RingLens == 2..MaxRingLen

\* The TRBs pushed: one with the cycle bit clear and an all-zero lower part,
\* one that arrives with the cycle bit set and differs in two lower dwords.
RingPayloads ==
    {EnableSlotCommandTrbNew,
     TrbSetBit(DataStageTrbFrom(4096, 8, TRUE, TRUE), 96, TRUE)}

\* The buffer of a ring of len slots allocated from the empty pool.
RingBuffer(len) == Allocate(0, len * SIZE_OF_TRB, Some(64), Some(65536)).ptr

InitRing ==
    /\ InitXhc
    /\ NoEventRing /\ NoBench
    /\ ring_impl \in {"ring", "trb"}
    /\ \E len \in RingLens :
          ring = IF ring_impl = "ring"
                 THEN RingInitialize(RingBuffer(len), len)
                 ELSE TrbRingInitialize(RingBuffer(len), len)
    /\ pushes = 0
    /\ copy = [pc |-> "idle"]
    /\ hc_seen = None

\* Ring::push of usb/ring.rs.
PushRing ==
    /\ ring_impl = "ring"
    /\ pushes < MaxPushes
    /\ \E data \in RingPayloads : ring' = RingPush(ring, data)
    /\ pushes' = pushes + 1
    /\ UNCHANGED <<ring_impl, copy, hc_seen, xhcVars, evrVars, benchVars>>

\* Ring::push of usb/trb/ring.rs.
PushTrbRing ==
    /\ ring_impl = "trb"
    /\ pushes < MaxPushes
    /\ \E trb \in RingPayloads : ring' = TrbRingPush(ring, trb)
    /\ pushes' = pushes + 1
    /\ UNCHANGED <<ring_impl, copy, hc_seen, xhcVars, evrVars, benchVars>>

NextRing == PushRing \/ PushTrbRing

SpecRing == InitRing /\ [][NextRing]_vars

\* C6: a push writes its payload to slot write_index, one of 0..N-2, with the
\* cycle bit the ring had before the push, and leaves write_index in 0..N-2;
\* every (N-1)th push also writes to slot N-1 a Link TRB that points to the
\* ring base, has toggle_cycle set and carries the cycle bit in force before
\* the flip, then resets write_index to 0 and toggles the cycle bit, so the
\* next push lands in slot 0 with the new cycle bit; no other push touches
\* slot N-1 or the cycle bit.
C6_RingDiscipline ==
    [][pushes' = pushes + 1
       => LET N == ring.len
              w == ring.write_index
          IN  /\ w \in 0..(N - 2)
              /\ \E data \in RingPayloads :
                    ring'.mem[w] = TrbSetBit(data, 96, ring.cycle_bit)
              /\ \A i \in 0..(N - 2) : i # w => ring'.mem[i] = ring.mem[i]
              /\ ring'.write_index \in 0..(N - 2)
              /\ IF pushes' % (N - 1) = 0
                 THEN /\ TrbType(ring'.mem[N - 1]) = TYPE_LINK
                      /\ TrbGetPtr4(ring'.mem[N - 1]) = ring.buffer
                      /\ ring'.mem[N - 1][2] = 0
                      /\ TrbGetBit(ring'.mem[N - 1], 97)
                      /\ TrbGetBit(ring'.mem[N - 1], 96) = ring.cycle_bit
                      /\ ring'.write_index = 0
                      /\ ring'.cycle_bit = ~ring.cycle_bit
                 ELSE /\ ring'.mem[N - 1] = ring.mem[N - 1]
                      /\ ring'.write_index = w + 1
                      /\ ring'.cycle_bit = ring.cycle_bit]_vars

\* A ring of three or more slots has wrapped once and taken one more push:
\* the Link TRB is in the last slot and slot 0 holds a payload with the new
\* cycle bit.
C6_Witness ==
    /\ ring.len >= 3
    /\ pushes = ring.len
    /\ TrbType(ring.mem[ring.len - 1]) = TYPE_LINK
    /\ ring.write_index = 1
    /\ ~ring.cycle_bit
    /\ ~TrbGetBit(ring.mem[0], 96)
    /\ TrbGetBit(ring.mem[1], 96)

----------------------------------------------------------------------------
(* usb/trb/ring.rs: push store by store, with the controller reading *)

InitCopy ==
    /\ InitXhc
    /\ NoEventRing /\ NoBench
    /\ ring_impl = "trb"
    /\ \E len \in RingLens : ring = TrbRingInitialize(RingBuffer(len), len)
    /\ pushes = 0
    /\ copy = [pc |-> "idle"]
    /\ hc_seen = None

\* copy_to_last is entered for trb: set_cycle_bit, no store done yet.
CopyOf(trb, link) ==
    [pc |-> "copy", trb |-> GenericTrbSetCycleBit(trb, ring.cycle_bit), done |-> 0,
     link |-> link, before |-> ring.mem[ring.write_index]]

\* push is called and enters copy_to_last for its payload.
CopyBegin ==
    /\ copy.pc = "idle"
    /\ pushes < MaxPushes
    /\ \E trb \in RingPayloads : copy' = CopyOf(trb, FALSE)
    /\ pushes' = pushes + 1
    /\ hc_seen' = None
    /\ UNCHANGED <<ring_impl, ring, xhcVars, evrVars, benchVars>>

\* The next write_volatile of copy_to_last.
CopyStore ==
    /\ copy.pc = "copy"
    /\ copy.done < 4
    /\ ring' = [ring EXCEPT !.mem[ring.write_index] =
                                SlotAfterStores(copy.before, copy.trb, copy.done + 1)]
    /\ copy' = [copy EXCEPT !.done = @ + 1]
    /\ UNCHANGED <<ring_impl, pushes, hc_seen, xhcVars, evrVars, benchVars>>

\* copy_to_last of the payload has returned: push advances write_index and,
\* at the last slot, enters copy_to_last for the Link TRB.
CopyPayloadDone ==
    /\ copy.pc = "copy"
    /\ copy.done = 4
    /\ ~copy.link
    /\ ring' = [ring EXCEPT !.write_index = @ + 1]
    /\ copy' = IF ring'.write_index = ring.len - 1
               THEN [pc |-> "copy",
                     trb |-> GenericTrbSetCycleBit(TrbLinkTrbNew(ring.buffer),
                                                   ring.cycle_bit),
                     done |-> 0, link |-> TRUE, before |-> ring.mem[ring.len - 1]]
               ELSE [pc |-> "idle"]
    /\ UNCHANGED <<ring_impl, pushes, hc_seen, xhcVars, evrVars, benchVars>>

\* copy_to_last of the Link TRB has returned: push wraps.
CopyLinkDone ==
    /\ copy.pc = "copy"
    /\ copy.done = 4
    /\ copy.link
    /\ ring' = [ring EXCEPT !.write_index = 0, !.cycle_bit = ~@]
    /\ copy' = [pc |-> "idle"]
    /\ UNCHANGED <<ring_impl, pushes, hc_seen, xhcVars, evrVars, benchVars>>

\* The controller reads the slot copy_to_last is writing.
HcRead ==
    /\ copy.pc = "copy"
    /\ hc_seen' = Some([trb |-> ring.mem[ring.write_index],
                        cycle_bit |-> ring.cycle_bit,
                        new |-> copy.trb,
                        before |-> copy.before,
                        done |-> copy.done])
    /\ UNCHANGED <<ring_impl, ring, pushes, copy, xhcVars, evrVars, benchVars>>

NextCopy == CopyBegin \/ CopyStore \/ CopyPayloadDone \/ CopyLinkDone \/ HcRead

SpecCopy == InitCopy /\ [][NextCopy]_vars

Lower96(t) == <<t[1], t[2], t[3]>>

\* C7: whenever the controller reads the slot that copy_to_last is writing,
\* it does not see the producer's current cycle bit unless the lower 96 bits
\* are those of the TRB being written; until the first three stores are done
\* the dword with the cycle bit is the one the slot held before.
C7_CycleDwordLast ==
    IsSome(hc_seen)
    => LET seen == Unwrap(hc_seen)
       IN  /\ GenericTrbCycleBit(seen.trb) = seen.cycle_bit
                 => Lower96(seen.trb) = Lower96(seen.new)
           /\ seen.done < 4 => seen.trb[4] = seen.before[4]

\* The controller read a slot that is reused after a wrap between two of the
\* stores: it saw part of the new lower 96 bits and the previous cycle bit.
C7_Witness ==
    /\ IsSome(hc_seen)
    /\ Unwrap(hc_seen).done \in 1..3
    /\ Unwrap(hc_seen).before # ZeroTrb
    /\ Lower96(Unwrap(hc_seen).trb) # Lower96(Unwrap(hc_seen).new)
    /\ Lower96(Unwrap(hc_seen).trb) # Lower96(Unwrap(hc_seen).before)
    /\ GenericTrbCycleBit(Unwrap(hc_seen).trb) # Unwrap(hc_seen).cycle_bit

----------------------------------------------------------------------------
(* The event rings of usb/ring.rs and usb/trb/ring.rs *)

\* ERDP::event_ring_dequeue_pointer of usb/xhci.rs: get_bits(4..64) << 4.
ErdpPointer(data) == (data \div 16) * 16

\* ERDP::set_event_ring_dequeue_pointer: set_bits(4..64, ptr >> 4), the low
\* four bits of the register are kept.
ErdpSetPointer(data, ptr) == (data % 16) + (ptr \div 16) * 16

\* EventRingSegmentTableEntry: the base address and the u16 size.
SegmentTableEntry(base, len) == [base |-> base, size |-> len % 65536]

\* EventRing::initialize of usb/trb/ring.rs: the ring, and ERDP afterwards.
TrbEventRingInitialize(len) ==
    LET a1 == Allocate(0, len * SIZE_OF_TRB, Some(64), Some(65536))
    IN  [ring |-> [buffer |-> a1.ptr, len |-> len, cycle_bit |-> TRUE,
                   segment_table |-> SegmentTableEntry(a1.ptr, len),
                   mem |-> [i \in 0..(len - 1) |-> ZeroTrb]],
         erdp |-> ErdpSetPointer(0, a1.ptr)]

\* EventRing::initialize of usb/ring.rs; the interrupter's ERDP is the
\* register of the xhci crate, which holds the pointer in bits 4..64 too.
EventRingInitialize(len) ==
    LET a1 == Allocate(0, len * SIZE_OF_TRB, Some(64), Some(65536))
    IN  [ring |-> [buffer |-> a1.ptr, len |-> len, cycle_bit |-> TRUE,
                   segment_table |-> SegmentTableEntry(a1.ptr, len),
                   mem |-> [i \in 0..(len - 1) |-> ZeroTrb]],
         erdp |-> ErdpSetPointer(0, a1.ptr)]

\* The slot of the ring an address refers to.
EvrSlot(e, ptr) == (ptr - e.buffer) \div SIZE_OF_TRB

\* A pop that moves ERDP back to the base without toggling the cycle bit.
TrbEventRingPopNoFlip(e, reg) ==
    LET ptr == ErdpPointer(reg) + SIZE_OF_TRB
        segment_begin == e.segment_table.base
        segment_end == segment_begin + SIZE_OF_TRB * e.segment_table.size
    IN  IF ptr = segment_end
        THEN [ring |-> e, erdp |-> ErdpSetPointer(reg, segment_begin)]
        ELSE [ring |-> e, erdp |-> ErdpSetPointer(reg, ptr)]

\* EventRing::pop of usb/trb/ring.rs: the ring and ERDP afterwards.
TrbEventRingPop(e, reg) ==
    LET ptr == ErdpPointer(reg) + SIZE_OF_TRB
        segment_begin == e.segment_table.base
        segment_end == segment_begin + SIZE_OF_TRB * e.segment_table.size
    IN  IF ptr = segment_end
        THEN [ring |-> [e EXCEPT !.cycle_bit = ~@],
              erdp |-> ErdpSetPointer(reg, segment_begin)]
        ELSE [ring |-> e, erdp |-> ErdpSetPointer(reg, ptr)]

\* EventRing::pop of usb/ring.rs.
EventRingPop(e, reg) ==
    LET ptr == ErdpPointer(reg) + SIZE_OF_TRB
        segment_begin == e.segment_table.base
        segment_end == segment_begin + SIZE_OF_TRB * e.segment_table.size
    IN  IF ptr = segment_end
        THEN [ring |-> [e EXCEPT !.cycle_bit = ~@],
              erdp |-> ErdpSetPointer(reg, segment_begin)]
        ELSE [ring |-> e, erdp |-> ErdpSetPointer(reg, ptr)]

\* EventRing::peek_front of usb/ring.rs: the TRB at ERDP if Trb::cycle_bit
\* (bit 65) equals the ring's cycle bit.
EventRingPeekFront(e, reg) ==
    LET trb == e.mem[EvrSlot(e, ErdpPointer(reg))]
    IN  IF TrbCycleBit(trb) = e.cycle_bit THEN Some(trb) ELSE None

MaxEvrLen == 3
MaxEvents == 7

\* The residual lengths of the events the controller writes.
InputResiduals == {0, 2}

\* The n-th event the controller writes, with its cycle state in bit 96.
HwEvent(n, residual, cycle) ==
    TrbSetBit(HwTransferEvent(1, DEFAULT_CONTROL_PIPE_ID, SIZE_OF_TRB * n, 1, residual),
              96, cycle)

InitEvr ==
    /\ InitXhc
    /\ NoRing /\ NoBench
    /\ evr_impl \in {"ring", "trb"}
    /\ \E len \in 1..MaxEvrLen :
          LET i == IF evr_impl = "ring" THEN EventRingInitialize(len)
                   ELSE TrbEventRingInitialize(len)
          IN  evr = i.ring /\ erdp = i.erdp
    /\ hw = [enqueue |-> 0, cycle |-> TRUE, produced |-> 0]
    /\ consumed = 0
    /\ poll = [pc |-> "idle", ret |-> None]

\* The controller writes an event at its enqueue pointer; it may do so while
\* fewer than len events lie between ERDP and the enqueue pointer, that is as
\* soon as ERDP has moved past the slot.
HwWriteEvent ==
    /\ hw.produced < MaxEvents
    /\ hw.produced - consumed < evr.len
    /\ \E residual \in InputResiduals :
          evr' = [evr EXCEPT !.mem[hw.enqueue] =
                                 HwEvent(hw.produced + 1, residual, hw.cycle)]
    /\ hw' = [enqueue |-> (hw.enqueue + 1) % evr.len,
              cycle |-> IF hw.enqueue + 1 = evr.len THEN ~hw.cycle ELSE hw.cycle,
              produced |-> hw.produced + 1]
    /\ UNCHANGED <<evr_impl, erdp, consumed, poll, xhcVars, ringVars, benchVars>>

\* Xhc::process_event on the EventRing of usb/ring.rs: peek_front, and pop
\* after the handler when there was an event.
ProcessEventPop ==
    /\ evr_impl = "ring"
    /\ consumed < MaxEvents
    /\ IsSome(EventRingPeekFront(evr, erdp))
    /\ evr' = EventRingPop(evr, erdp).ring
    /\ erdp' = EventRingPop(evr, erdp).erdp
    /\ consumed' = consumed + 1
    /\ poll' = [pc |-> "idle", ret |-> EventRingPeekFront(evr, erdp)]
    /\ UNCHANGED <<evr_impl, hw, xhcVars, ringVars, benchVars>>

\* EventRing::poll of usb/trb/ring.rs finds no event at ERDP.
PollEmpty ==
    /\ evr_impl = "trb"
    /\ poll.pc = "idle"
    /\ GenericTrbCycleBit(evr.mem[EvrSlot(evr, ErdpPointer(erdp))]) # evr.cycle_bit
    /\ poll' = [pc |-> "idle", ret |-> None]
    /\ UNCHANGED <<evr_impl, evr, erdp, hw, consumed, xhcVars, ringVars, benchVars>>

\* EventRing::poll takes the reference to the TRB at ERDP and finds its cycle
\* bit equal to the ring's.
PollCheck ==
    /\ evr_impl = "trb"
    /\ poll.pc = "idle"
    /\ consumed < MaxEvents
    /\ LET slot == EvrSlot(evr, ErdpPointer(erdp))
       IN  /\ GenericTrbCycleBit(evr.mem[slot]) = evr.cycle_bit
           /\ poll' = [pc |-> "pop", ref |-> slot, checked |-> evr.mem[slot]]
    /\ UNCHANGED <<evr_impl, evr, erdp, hw, consumed, xhcVars, ringVars, benchVars>>

\* EventRing::poll calls pop, which writes ERDP.
PollPop ==
    /\ poll.pc = "pop"
    /\ evr' = TrbEventRingPop(evr, erdp).ring
    /\ erdp' = TrbEventRingPop(evr, erdp).erdp
    /\ consumed' = consumed + 1
    /\ poll' = [poll EXCEPT !.pc = "copy"]
    /\ UNCHANGED <<evr_impl, hw, xhcVars, ringVars, benchVars>>

\* EventRing::poll copies the TRB through the reference and returns it.  The
\* reference is a shared one and the read is not volatile, so the build may
\* read the slot here, after pop, or reuse what it read for the cycle check.
PollCopy ==
    /\ poll.pc = "copy"
    /\ \E trb \in {evr.mem[poll.ref], poll.checked} :
          poll' = [pc |-> "idle", ret |-> Some(trb), checked |-> poll.checked]
    /\ UNCHANGED <<evr_impl, evr, erdp, hw, consumed, xhcVars, ringVars, benchVars>>

NextEvr ==
    \/ HwWriteEvent
    \/ ProcessEventPop
    \/ PollEmpty
    \/ PollCheck
    \/ PollPop
    \/ PollCopy

SpecEvr == InitEvr /\ [][NextEvr]_vars

\* C8: the TRB EventRing::poll of usb/trb/ring.rs returns is the event that
\* was in the slot when poll found it: ERDP is written only after the copy, so
\* the controller, which may overwrite a slot once ERDP has moved past it,
\* cannot change what poll returns.
C8_PollReturnsEvent ==
    (evr_impl = "trb" /\ poll.pc = "idle" /\ IsSome(poll.ret))
    => Unwrap(poll.ret) = poll.checked

----------------------------------------------------------------------------
(* main.rs and usb/mod.rs: the interrupt handler and process_event *)

\* A port with a device on which main.rs called configure_port, and the same
\* port after the port reset, EnableSlot and AddressDevice: the device of
\* slot 1 waits for its device descriptor.
IrqPortResetting(p) == ConfigurePortOp(MouseAttached(p), p, TRUE)
IrqDeviceAddressed(p) ==
    MouseAddressed(HwAddressDeviceOp(
        MouseSlotEnabled(MousePortReset(IrqPortResetting(p), p)), 1))
IrqStages(p) == {IrqPortResetting(p), IrqDeviceAddressed(p)}

\* The events the controller may still write, and the invocations of the
\* interrupt handler.
MaxIrqEvents == 3
MaxInterrupts == 2

\* An event of type 37, Host Controller Event, which process_event has no
\* handler for; bit 65 is one of its parameter bits.
HwHostControllerEvent(bit) == TrbSetBit(WithType(37), 65, bit)

\* The residual of a transfer that delivered the device descriptor, and of
\* one that delivered nothing.
IrqResiduals == {DATA_BUF_LEN - Len(DeviceDescriptorBytes), DATA_BUF_LEN}

\* What the device left at data_buf for the residual an event reports.
IrqReply(trb) ==
    IF TransferEventResidual(trb) = DATA_BUF_LEN - Len(DeviceDescriptorBytes)
    THEN DeviceDescriptorBytes
    ELSE <<>>

\* The TRBs a TransferEvent of slot 1 may point to.
IrqPointers(s) ==
    IF FindBySlot(s, 1) = None THEN {0} ELSE {0} \cup IssuedKeys(Unwrap(FindBySlot(s, 1)))

\* The events the controller writes.
IrqEvents(s) ==
    {HwPortStatusChangeEvent(p) : p \in Ports}
        \cup {HwCommandCompletionEvent(slot_id, CommandSlot(s, i)) :
                 slot_id \in SlotIds, i \in 0..1}
        \cup {HwTransferEvent(1, DEFAULT_CONTROL_PIPE_ID, ptr, code, residual) :
                 ptr \in IrqPointers(s), code \in {1, 4}, residual \in IrqResiduals}
        \cup {HwHostControllerEvent(bit) : bit \in BOOLEAN}

\* The event ring after init_event_ring (lap 0), and after the controller
\* wrote and process_event consumed one event per slot (lap 1): TransferEvents
\* of a slot that had no device, so that the driver's state is what it was.
IrqEventRing(len, lap) ==
    IF lap = 0
    THEN [ring |-> EventRingInitialize(len).ring,
          erdp |-> EventRingInitialize(len).erdp,
          hw |-> [enqueue |-> 0, cycle |-> TRUE, produced |-> 0, written |-> <<>>],
          consumed |-> 0]
    ELSE [ring |-> [EventRingInitialize(len).ring EXCEPT
                        !.cycle_bit = FALSE,
                        !.mem = [i \in 0..(len - 1) |-> HwEvent(i + 1, 2, TRUE)]],
          erdp |-> EventRingInitialize(len).erdp,
          hw |-> [enqueue |-> 0, cycle |-> FALSE, produced |-> len, written |-> <<>>],
          consumed |-> len]

IrqRingIs(r) ==
    /\ evr = r.ring
    /\ erdp = r.erdp
    /\ hw = r.hw
    /\ consumed = r.consumed

InitIrq ==
    /\ \E p \in Ports : \E s \in IrqStages(p) : XhcIs(s)
    /\ completed = {}
    /\ NoRing /\ NoMouse /\ NoBoot /\ NoPure
    /\ evr_impl = "ring"
    /\ \E len \in 1..MaxEvrLen, lap \in 0..1 : IrqRingIs(IrqEventRing(len, lap))
    /\ poll = [pc |-> "idle"]
    /\ irq = Some([pc |-> "idle", calls |-> 0, polls |-> 0, last |-> "none",
                   eoi |-> <<>>, delivered |-> <<>>, results |-> <<>>])

\* The controller writes an event at its enqueue pointer, with its cycle
\* state in bit 96.
HwWriteIrqEvent ==
    /\ irq # None
    /\ halted = "no"
    /\ Len(hw.written) < MaxIrqEvents
    /\ hw.produced - consumed < evr.len
    /\ \E trb \in IrqEvents(St) :
          /\ evr' = [evr EXCEPT !.mem[hw.enqueue] = TrbSetBit(trb, 96, hw.cycle)]
          /\ hw' = [enqueue |-> (hw.enqueue + 1) % evr.len,
                    cycle |-> IF hw.enqueue + 1 = evr.len THEN ~hw.cycle ELSE hw.cycle,
                    produced |-> hw.produced + 1,
                    written |-> Append(hw.written, TrbSetBit(trb, 96, hw.cycle))]
    /\ UNCHANGED <<evr_impl, erdp, consumed, poll, xhcVars, ringVars, benchVars>>

\* process_event: the match on the specialized type of the event.
DispatchEvent(s, trb, enabled) ==
    IF TrbType(trb) = TYPE_TRANSFER_EVENT
    THEN OnTransferEventOp(s, trb, IrqReply(trb))
    ELSE IF TrbType(trb) = TYPE_COMMAND_COMPLETION_EVENT
    THEN OnCommandCompletionEventOp(s, trb, enabled)
    ELSE IF TrbType(trb) = TYPE_PORT_STATUS_CHANGE_EVENT
    THEN OnPortStatusChangeEventOp(s, trb, enabled)
    ELSE [s EXCEPT !.result = Err("NotImplemented")]

\* process_event keeping the event at ERDP when its handler failed.
ProcessEventHandledKeep(s1, e, reg) ==
    IF s1.halted # "no" \/ s1.result # Ok
    THEN [s |-> s1, ring |-> e, erdp |-> reg, found |-> TRUE]
    ELSE [s |-> s1, ring |-> EventRingPop(e, reg).ring,
          erdp |-> EventRingPop(e, reg).erdp, found |-> TRUE]

\* process_event after the handler returned with s1: pop, then the result.  A
\* handler that panicked or hangs does not return.
ProcessEventHandled(s1, e, reg) ==
    IF s1.halted # "no"
    THEN [s |-> s1, ring |-> e, erdp |-> reg, found |-> TRUE]
    ELSE [s |-> s1, ring |-> EventRingPop(e, reg).ring,
          erdp |-> EventRingPop(e, reg).erdp, found |-> TRUE]

\* Xhc::process_event: the driver, the ring and ERDP afterwards, and whether
\* peek_front found an event.
ProcessEventOp(s, e, reg, enabled) ==
    IF EventRingPeekFront(e, reg) = None
    THEN [s |-> s, ring |-> e, erdp |-> reg, found |-> FALSE]
    ELSE ProcessEventHandled(
             DispatchEvent(s, Unwrap(EventRingPeekFront(e, reg)), enabled), e, reg)

\* Xhc::poll as xhc_interrupt_handler reads it: an error, an event, or none.
XhcPollResult(r) ==
    IF r.s.result # Ok THEN "err" ELSE IF r.found THEN "some" ELSE "none"

\* The interrupt of the controller enters xhc_interrupt_handler.
XhcInterruptHandler ==
    /\ irq # None
    /\ halted = "no"
    /\ Unwrap(irq).pc = "idle"
    /\ Unwrap(irq).calls < MaxInterrupts
    /\ hw.produced > consumed
    /\ irq' = Some([Unwrap(irq) EXCEPT !.pc = "poll", !.calls = @ + 1])
    /\ UNCHANGED <<xhcVars, ringVars, evrVars, mouse, boot, pureVars>>

\* What one pass of the handler's loop leaves: r is what the call of poll
\* returned for the event trb.
XhcPolled(r, trb) ==
    /\ XhcBecomes(r.s)
    /\ evr' = r.ring
    /\ erdp' = r.erdp
    /\ consumed' = IF r.ring = evr /\ r.erdp = erdp THEN consumed ELSE consumed + 1
    /\ irq' = Some([Unwrap(irq) EXCEPT
                       !.pc = IF r.s.halted # "no" THEN "halted"
                              ELSE IF XhcPollResult(r) = "some" THEN "poll" ELSE "eoi",
                       !.polls = @ + 1,
                       !.last = XhcPollResult(r),
                       !.delivered = IF r.found THEN @ \o trb ELSE @,
                       !.results = IF r.found THEN Append(@, r.s.result) ELSE @])
    /\ UNCHANGED <<evr_impl, hw, poll, completed, ringVars, mouse, boot, pureVars>>

\* One pass of the loop of xhc_interrupt_handler: poll, and the match on what
\* it returned.
XhcPoll ==
    /\ irq # None
    /\ halted = "no"
    /\ Unwrap(irq).pc = "poll"
    /\ \E enabled \in BOOLEAN :
          XhcPolled(ProcessEventOp(St, evr, erdp, enabled),
                    IF EventRingPeekFront(evr, erdp) = None THEN <<>>
                    ELSE <<Unwrap(EventRingPeekFront(evr, erdp))>>)

\* notify_end_interrupt: 0 is written to the EOI register of the local APIC.
NotifyEndInterrupt ==
    /\ irq # None
    /\ Unwrap(irq).pc = "eoi"
    /\ irq' = Some([Unwrap(irq) EXCEPT !.pc = "idle", !.eoi = Append(@, 0)])
    /\ UNCHANGED <<xhcVars, ringVars, evrVars, mouse, boot, pureVars>>

NextIrq == HwWriteIrqEvent \/ XhcInterruptHandler \/ XhcPoll \/ NotifyEndInterrupt

SpecIrq == InitIrq /\ [][NextIrq]_vars

\* A pass of the handler's loop: the call of poll, that is of process_event.
PollStep == irq # None /\ irq' # None /\ Unwrap(irq').polls = Unwrap(irq).polls + 1

\* The step of notify_end_interrupt.
EoiStep == irq # None /\ irq' # None /\ Len(Unwrap(irq').eoi) = Len(Unwrap(irq).eoi) + 1

\* The slot ERDP points to.
ErdpSlot(e, reg) == (ErdpPointer(reg) - e.buffer) \div SIZE_OF_TRB

\* C18: every invocation of the interrupt handler keeps polling until a poll
\* finds the event ring empty, also when the handling of an event returned an
\* error, and only then writes 0 to the EOI register of the local APIC, once
\* per invocation.
C18_DrainsBeforeEoi ==
    [][EoiStep =>
          /\ Unwrap(irq).last = "none"
          /\ Unwrap(irq').eoi = Append(Unwrap(irq).eoi, 0)
          /\ Len(Unwrap(irq').eoi) = Unwrap(irq').calls]_vars

----------------------------------------------------------------------------
(* usb/mod.rs: Xhc::initialize and Xhc::run, and the controller's registers *)

\* The statements in the order they run, with the driver waiting for a bit
\* of the controller where the code spins: request_hc_ownership,
\* initialize_host_controller, set_enabled_device_slots, set_dcbaap,
\* init_command_ring, init_event_ring, init_interrupter, run.
BootOrder ==
    <<"request_hc_ownership", "wait_ownership",
      "stop", "wait_halted", "reset", "wait_reset", "wait_ready",
      "set_enabled_device_slots", "set_dcbaap", "init_command_ring",
      "init_event_ring", "iman", "inte", "run", "wait_running", "done">>

\* The same statements with set_enabled_device_slots called before
\* initialize_host_controller.
BootOrderSlotsFirst ==
    <<"request_hc_ownership", "wait_ownership",
      "set_enabled_device_slots",
      "stop", "wait_halted", "reset", "wait_reset", "wait_ready",
      "set_dcbaap", "init_command_ring",
      "init_event_ring", "iman", "inte", "run", "wait_running", "done">>

After(order, pc) == order[(CHOOSE i \in 1..(Len(order) - 1) : order[i] = pc) + 1]

BootNextSlotsFirst(pc) == After(BootOrderSlotsFirst, pc)

\* The statement that follows pc in Xhc::initialize and Xhc::run.
BootNext(pc) == After(BootOrder, pc)

\* A register access of the driver, in the order of the accesses.
BootLog(b, op, reg, val) ==
    [b EXCEPT !.log = Append(@, [op |-> op, reg |-> reg, val |-> val])]

\* A write to an operational or runtime register is not taken by a
\* controller that is being reset or is not ready.
WriteTaken(b) == ~b.usbcmd.hcrst /\ ~b.usbsts.cnr

\* The registers as a reset leaves them.
RegisterDefaults(b) ==
    [b EXCEPT !.usbcmd = [rs |-> FALSE, hcrst |-> FALSE, inte |-> FALSE],
              !.config = 0, !.dcbaap = 0,
              !.crcr = [rcs |-> FALSE, ptr |-> 0],
              !.ir0 = [erstsz |-> 0, erdp |-> 0, erstba |-> 0, ip |-> FALSE, ie |-> FALSE]]

\* What the firmware may have left in CONFIG.
StaleConfigs == {0, 32}

\* The controller as Xhc::new finds it: running, halting or halted, with or
\* without interrupts enabled and the USB Legacy Support capability, owned by
\* the firmware or not.
BootRegisters(rs, hch, inte, present, bios, config) ==
    [pc |-> "request_hc_ownership",
     legsup |-> [present |-> present, bios |-> bios, os |-> FALSE],
     usbcmd |-> [rs |-> rs, hcrst |-> FALSE, inte |-> inte],
     usbsts |-> [hch |-> hch, cnr |-> FALSE],
     config |-> config, dcbaap |-> 0,
     crcr |-> [rcs |-> FALSE, ptr |-> 0],
     ir0 |-> [erstsz |-> 0, erdp |-> 0, erstba |-> 0, ip |-> FALSE, ie |-> FALSE],
     log |-> <<>>, undefined |-> FALSE]

InitBoot ==
    /\ InitXhc
    /\ NoRing /\ NoEventRing /\ NoMouse /\ NoIrq /\ NoPure
    /\ \E rs \in BOOLEAN, hch \in BOOLEAN, inte \in BOOLEAN, present \in BOOLEAN,
          bios \in BOOLEAN, config \in StaleConfigs :
          /\ rs => ~hch
          /\ bios => present
          /\ boot = Some(BootRegisters(rs, hch, inte, present, bios, config))

\* The driver's statement at pc leaves b and goes on with the next one.
BootStep(pc, b) ==
    /\ boot # None
    /\ Unwrap(boot).pc = pc
    /\ boot' = Some([b EXCEPT !.pc = BootNext(pc)])
    /\ UNCHANGED <<xhcVars, ringVars, evrVars, mouse, irq, pureVars>>

\* A step of the controller leaves b.
HcStep(b) ==
    /\ boot' = Some(b)
    /\ UNCHANGED <<xhcVars, ringVars, evrVars, mouse, irq, pureVars>>

\* request_hc_ownership: the OS owned semaphore is set when the controller
\* has the USB Legacy Support capability.
RequestHcOwnershipOp(b) ==
    IF b.legsup.present
    THEN BootLog([b EXCEPT !.legsup.os = TRUE], "write", "USBLEGSUP", 1)
    ELSE b

RequestHcOwnership ==
    /\ boot # None
    /\ BootStep("request_hc_ownership", RequestHcOwnershipOp(Unwrap(boot)))

\* request_hc_ownership: the loop ends when the firmware has let go.
WaitHcOwnership ==
    /\ boot # None
    /\ Unwrap(boot).legsup.present
          => (~Unwrap(boot).legsup.bios /\ Unwrap(boot).legsup.os)
    /\ BootStep("wait_ownership", Unwrap(boot))

\* initialize_host_controller: usbcmd.update(set_run_stop(false)).
StopControllerOp(b) ==
    BootLog(IF WriteTaken(b) THEN [b EXCEPT !.usbcmd.rs = FALSE] ELSE b,
            "write", "USBCMD.RS", 0)

StopController ==
    /\ boot # None
    /\ BootStep("stop", StopControllerOp(Unwrap(boot)))

\* initialize_host_controller: while !usbsts.hc_halted() {}.
WaitHalted ==
    /\ boot # None
    /\ Unwrap(boot).usbsts.hch
    /\ BootStep("wait_halted", BootLog(Unwrap(boot), "read", "USBSTS.HCH", 1))

\* initialize_host_controller: usbcmd.update(set_host_controller_reset(true)).
\* Resetting a controller that is not halted is undefined.
ResetControllerOp(b) ==
    BootLog([b EXCEPT !.usbcmd.hcrst = TRUE,
                      !.undefined = @ \/ ~b.usbsts.hch],
            "write", "USBCMD.HCRST", 1)

ResetController ==
    /\ boot # None
    /\ BootStep("reset", ResetControllerOp(Unwrap(boot)))

\* initialize_host_controller: while usbcmd.host_controller_reset() {}.
WaitReset ==
    /\ boot # None
    /\ ~Unwrap(boot).usbcmd.hcrst
    /\ BootStep("wait_reset", BootLog(Unwrap(boot), "read", "USBCMD.HCRST", 0))

\* initialize_host_controller: while usbsts.controller_not_ready() {}.
WaitReady ==
    /\ boot # None
    /\ ~Unwrap(boot).usbsts.cnr
    /\ BootStep("wait_ready", BootLog(Unwrap(boot), "read", "USBSTS.CNR", 0))

\* set_enabled_device_slots: CONFIG.max_device_slots_enabled = max_slots.
SetEnabledDeviceSlotsOp(b) ==
    BootLog(IF WriteTaken(b) THEN [b EXCEPT !.config = NUM_DEVICE_SLOTS] ELSE b,
            "write", "CONFIG", NUM_DEVICE_SLOTS)

SetEnabledDeviceSlots ==
    /\ boot # None
    /\ BootStep("set_enabled_device_slots", SetEnabledDeviceSlotsOp(Unwrap(boot)))

\* set_dcbaap: DCBAAP = the array DeviceManager::initialize allocated.
SetDcbaapOp(b) ==
    BootLog(IF WriteTaken(b) THEN [b EXCEPT !.dcbaap = DcbaaAlloc.ptr] ELSE b,
            "write", "DCBAAP", DcbaaAlloc.ptr)

SetDcbaap ==
    /\ boot # None
    /\ BootStep("set_dcbaap", SetDcbaapOp(Unwrap(boot)))

\* init_command_ring: CRCR = the ring's buffer with the ring cycle state 1
\* (bit 0), command stop and command abort 0.
InitCommandRingOp(b, ring_ptr) ==
    BootLog(IF WriteTaken(b) THEN [b EXCEPT !.crcr = [rcs |-> TRUE, ptr |-> ring_ptr]]
            ELSE b,
            "write", "CRCR", ring_ptr + 1)

InitCommandRing ==
    /\ boot # None
    /\ BootStep("init_command_ring", InitCommandRingOp(Unwrap(boot), command_ring.buffer))

\* init_event_ring: EventRing::initialize writes ERSTSZ, ERDP and ERSTBA of
\* interrupter 0 in one update.
InitEventRingOp(b) ==
    BootLog(IF WriteTaken(b)
            THEN [b EXCEPT !.ir0.erstsz = 1,
                           !.ir0.erdp = ErdpSetPointer(@, EventRingAlloc.ptr),
                           !.ir0.erstba = SegmentTableAlloc.ptr]
            ELSE b,
            "write", "ERST", EventRingAlloc.ptr)

InitEventRing ==
    /\ boot # None
    /\ BootStep("init_event_ring", InitEventRingOp(Unwrap(boot)))

\* init_interrupter: IMAN of interrupter 0, interrupt pending written as 1
\* (which clears it) and interrupt enable set.
InitInterrupterImanOp(b) ==
    BootLog(IF WriteTaken(b) THEN [b EXCEPT !.ir0.ip = FALSE, !.ir0.ie = TRUE] ELSE b,
            "write", "IMAN", 3)

InitInterrupterIman ==
    /\ boot # None
    /\ BootStep("iman", InitInterrupterImanOp(Unwrap(boot)))

\* init_interrupter: usbcmd.update(set_interrupter_enable(true)).
InitInterrupterInteOp(b) ==
    BootLog(IF WriteTaken(b) THEN [b EXCEPT !.usbcmd.inte = TRUE] ELSE b,
            "write", "USBCMD.INTE", 1)

InitInterrupterInte ==
    /\ boot # None
    /\ BootStep("inte", InitInterrupterInteOp(Unwrap(boot)))

\* run: usbcmd.update(set_run_stop(true)).
RunOp(b) ==
    BootLog(IF WriteTaken(b) THEN [b EXCEPT !.usbcmd.rs = TRUE] ELSE b,
            "write", "USBCMD.RS", 1)

Run ==
    /\ boot # None
    /\ BootStep("run", RunOp(Unwrap(boot)))

\* run: while usbsts.hc_halted() {}.
WaitRunning ==
    /\ boot # None
    /\ ~Unwrap(boot).usbsts.hch
    /\ BootStep("wait_running", BootLog(Unwrap(boot), "read", "USBSTS.HCH", 0))

\* The firmware releases the controller after the OS asked for it.
BiosRelease ==
    /\ boot # None
    /\ Unwrap(boot).legsup.bios /\ Unwrap(boot).legsup.os
    /\ HcStep([Unwrap(boot) EXCEPT !.legsup.bios = FALSE])

\* The controller halts after Run/Stop was cleared.
HcHalt ==
    /\ boot # None
    /\ ~Unwrap(boot).usbcmd.rs /\ ~Unwrap(boot).usbsts.hch
    /\ HcStep([Unwrap(boot) EXCEPT !.usbsts.hch = TRUE])

\* The controller starts the reset: its registers take their defaults and it
\* is not ready.
HcReset ==
    /\ boot # None
    /\ Unwrap(boot).usbcmd.hcrst /\ ~Unwrap(boot).usbsts.cnr
    /\ HcStep([RegisterDefaults(Unwrap(boot)) EXCEPT
                  !.usbcmd.hcrst = TRUE,
                  !.usbsts = [hch |-> TRUE, cnr |-> TRUE]])

\* The controller ends the reset and clears HCRST; it is ready later.
HcResetDone ==
    /\ boot # None
    /\ Unwrap(boot).usbcmd.hcrst /\ Unwrap(boot).usbsts.cnr
    /\ HcStep([Unwrap(boot) EXCEPT !.usbcmd.hcrst = FALSE])

HcReady ==
    /\ boot # None
    /\ ~Unwrap(boot).usbcmd.hcrst /\ Unwrap(boot).usbsts.cnr
    /\ HcStep([Unwrap(boot) EXCEPT !.usbsts.cnr = FALSE])

\* The controller runs after Run/Stop was set.
HcStart ==
    /\ boot # None
    /\ Unwrap(boot).usbcmd.rs /\ Unwrap(boot).usbsts.hch /\ WriteTaken(Unwrap(boot))
    /\ HcStep([Unwrap(boot) EXCEPT !.usbsts.hch = FALSE])

NextBoot ==
    \/ RequestHcOwnership
    \/ WaitHcOwnership
    \/ StopController
    \/ WaitHalted
    \/ ResetController
    \/ WaitReset
    \/ WaitReady
    \/ SetEnabledDeviceSlots
    \/ SetDcbaap
    \/ InitCommandRing
    \/ InitEventRing
    \/ InitInterrupterIman
    \/ InitInterrupterInte
    \/ Run
    \/ WaitRunning
    \/ BiosRelease
    \/ HcHalt
    \/ HcReset
    \/ HcResetDone
    \/ HcReady
    \/ HcStart

SpecBoot == InitBoot /\ [][NextBoot]_vars

\* The accesses of the bring-up so far.
BootAccesses == IF boot = None THEN <<>> ELSE Unwrap(boot).log

Wrote(i, reg, val) == BootAccesses[i] = [op |-> "write", reg |-> reg, val |-> val]
Observed(i, reg, val) == BootAccesses[i] = [op |-> "read", reg |-> reg, val |-> val]
WroteTo(i, reg) == BootAccesses[i].op = "write" /\ BootAccesses[i].reg = reg

\* The registers that are set up between the reset and the start.
SetupRegisters == {"CONFIG", "DCBAAP", "CRCR", "ERST", "IMAN", "USBCMD.INTE"}

\* C20: during Xhc::initialize and Xhc::run, Host Controller Reset is set
\* only after Run/Stop was cleared and HC_HALTED = 1 was observed; CONFIG,
\* DCBAAP, CRCR (RCS = 1 and the command ring's base), the event ring
\* registers of interrupter 0, IMAN and USBCMD.INTE are written after HCRST
\* was seen cleared and CNR = 0 was seen, and before Run/Stop is set;
\* Run/Stop = 1 is the last write, made when all of them were written.
C20_BringUpOrder ==
    \A i \in 1..Len(BootAccesses) :
        /\ Wrote(i, "USBCMD.HCRST", 1)
              => \E j \in 1..(i - 1), k \in 1..(i - 1) :
                    j < k /\ Wrote(j, "USBCMD.RS", 0) /\ Observed(k, "USBSTS.HCH", 1)
        /\ (\E reg \in SetupRegisters : WroteTo(i, reg))
              => /\ \E j \in 1..(i - 1), k \in 1..(i - 1), l \in 1..(i - 1) :
                       /\ j < k /\ k < l
                       /\ Wrote(j, "USBCMD.HCRST", 1)
                       /\ Observed(k, "USBCMD.HCRST", 0)
                       /\ Observed(l, "USBSTS.CNR", 0)
                 /\ \A m \in 1..i : ~Wrote(m, "USBCMD.RS", 1)
        /\ WroteTo(i, "CRCR") => Wrote(i, "CRCR", command_ring.buffer + 1)
        /\ WroteTo(i, "CONFIG") => Wrote(i, "CONFIG", NUM_DEVICE_SLOTS)
        /\ Wrote(i, "USBCMD.RS", 1)
              => /\ \A reg \in SetupRegisters : \E j \in 1..(i - 1) : WroteTo(j, reg)
                 /\ \A m \in (i + 1)..Len(BootAccesses) : BootAccesses[m].op # "write"

\* The bring-up is through: the controller was stopped, reset, set up and
\* started, and it runs with the registers the driver wrote.
C20_Witness ==
    /\ boot # None
    /\ Unwrap(boot).pc = "done"
    /\ \E i \in 1..Len(BootAccesses) : Wrote(i, "USBCMD.RS", 1)
    /\ \E i \in 1..Len(BootAccesses) : Wrote(i, "USBCMD.HCRST", 1)
    /\ Unwrap(boot).usbcmd = [rs |-> TRUE, hcrst |-> FALSE, inte |-> TRUE]
    /\ Unwrap(boot).config = NUM_DEVICE_SLOTS
    /\ Unwrap(boot).dcbaap = DcbaaAlloc.ptr
    /\ Unwrap(boot).crcr = [rcs |-> TRUE, ptr |-> command_ring.buffer]
    /\ Unwrap(boot).ir0.ie
    /\ ~Unwrap(boot).usbsts.hch
    /\ ~Unwrap(boot).undefined

----------------------------------------------------------------------------
(* usb/mem.rs: the allocator exercised apart *)

\* The calls of a run with mixed requests.
MaxAllocs == 3

\* The requests: sizes around the pool size and the boundaries, the alignments
\* and boundaries the driver uses.
AllocSizes == {1, 63, 4090, 4096, 65536, MEMORY_POOL_BYTES - 1, MEMORY_POOL_BYTES}
AllocAlignments == {None, Some(64), Some(4096)}
AllocBoundaries == {None, Some(4096), Some(65536)}

\* allocate_array::<T>: the lengths and the sizes of T.
ArrayLens == {2, 32}
ArrayElementSizes == {SIZE_OF_TRB}

\* The sizes of the runs that repeat one request without alignment.
UniformSizes == {1, 100, 4096}

\* A call of allocate at pool offset before, and what it returned.
AllocCall(before, bytes, alignment, boundary) ==
    [bytes |-> bytes, alignment |-> alignment, boundary |-> boundary,
     before |-> before,
     ok |-> Allocate(before, bytes, alignment, boundary).ok,
     ptr |-> Allocate(before, bytes, alignment, boundary).ptr,
     after |-> Allocate(before, bytes, alignment, boundary).offset,
     result |-> IF Allocate(before, bytes, alignment, boundary).ok
                THEN Ok ELSE Err("OutOfMemory")]

\* The empty pool: OFFSET = 0.  A run is one of mixed requests, whose calls
\* are all kept, or repeats one request, and then keeps the last call, the
\* number of the calls that succeeded and the sum of their sizes.
InitMem ==
    /\ InitXhc
    /\ NoRing /\ NoEventRing /\ NoMouse /\ NoIrq /\ NoBoot
    /\ amap = None /\ conv = None /\ NoMore
    /\ \/ mem = Some([mode |-> "mixed", size |-> 0, offset |-> 0, calls |-> <<>>,
                      count |-> 0, sum |-> 0])
       \/ \E size \in UniformSizes :
             mem = Some([mode |-> "uniform", size |-> size, offset |-> 0,
                         calls |-> <<>>, count |-> 0, sum |-> 0])

MemIdle == UNCHANGED <<xhcVars, ringVars, evrVars, mouse, irq, boot, amap, conv, moreVars>>

\* The run of mixed requests goes on with the call c.
MemCalled(c) ==
    /\ mem' = Some([Unwrap(mem) EXCEPT
                       !.offset = c.after,
                       !.calls = Append(@, c),
                       !.count = IF c.ok THEN @ + 1 ELSE @,
                       !.sum = IF c.ok THEN @ + c.bytes ELSE @])
    /\ MemIdle

\* allocate(bytes, alignment, boundary)
AllocateCall ==
    /\ mem # None
    /\ Unwrap(mem).mode = "mixed"
    /\ Len(Unwrap(mem).calls) < MaxAllocs
    /\ \E bytes \in AllocSizes, alignment \in AllocAlignments,
          boundary \in AllocBoundaries :
          MemCalled(AllocCall(Unwrap(mem).offset, bytes, alignment, boundary))

\* allocate_array::<T>(len, alignment, boundary): allocate of len * size_of T.
AllocateArrayCall ==
    /\ mem # None
    /\ Unwrap(mem).mode = "mixed"
    /\ Len(Unwrap(mem).calls) < MaxAllocs
    /\ \E len \in ArrayLens, size \in ArrayElementSizes,
          ab \in {<<None, None>>, <<Some(64), Some(65536)>>} :
          MemCalled(AllocCall(Unwrap(mem).offset, len * size, ab[1], ab[2]))

\* allocate(size, None, None) once more; the run ends with the call that
\* fails.
AllocateRepeated ==
    /\ mem # None
    /\ Unwrap(mem).mode = "uniform"
    /\ \A i \in 1..Len(Unwrap(mem).calls) : Unwrap(mem).calls[i].ok
    /\ LET c == AllocCall(Unwrap(mem).offset, Unwrap(mem).size, None, None)
       IN  mem' = Some([Unwrap(mem) EXCEPT
                           !.offset = c.after,
                           !.calls = <<c>>,
                           !.count = IF c.ok THEN @ + 1 ELSE @,
                           !.sum = IF c.ok THEN @ + c.bytes ELSE @])
    /\ MemIdle

NextMem == AllocateCall \/ AllocateArrayCall \/ AllocateRepeated

SpecMem == InitMem /\ [][NextMem]_vars

\* The calls kept of the run.
MemCalls == IF mem = None THEN <<>> ELSE Unwrap(mem).calls

\* The calls of the run that returned a region of positive size.
MemRegions == {i \in 1..Len(MemCalls) : MemCalls[i].ok /\ MemCalls[i].bytes > 0}

\* C21: over any sequence of allocate and allocate_array calls the pool offset
\* never decreases (each call leaves it at or above the offset it found, and
\* the next call finds what the last one left), and the regions that the
\* successful calls of positive size returned are pairwise disjoint and lie
\* inside the pool of 128 KiB.
C21_OffsetGrowsRegionsDisjoint ==
    /\ \A i \in 1..Len(MemCalls) : MemCalls[i].after >= MemCalls[i].before
    /\ mem # None /\ Len(MemCalls) > 0 =>
          Unwrap(mem).offset = MemCalls[Len(MemCalls)].after
    /\ mem # None /\ Unwrap(mem).mode = "mixed" =>
          \A i \in 1..Len(MemCalls) :
             MemCalls[i].before = IF i = 1 THEN 0 ELSE MemCalls[i - 1].after
    /\ \A i \in MemRegions :
          /\ MemCalls[i].ptr >= POOL_BASE
          /\ MemCalls[i].ptr + MemCalls[i].bytes <= POOL_BASE + 128 * 1024
    /\ \A i, j \in MemRegions :
          i < j => MemCalls[i].ptr + MemCalls[i].bytes <= MemCalls[j].ptr

\* Three regions were returned, one of them after padding for the alignment
\* and one moved to the next boundary.
C21_Witness ==
    /\ Cardinality(MemRegions) = 3
    /\ \E i \in MemRegions :
          /\ IsSome(MemCalls[i].alignment) /\ ~IsSome(MemCalls[i].boundary)
          /\ MemCalls[i].ptr - POOL_BASE > MemCalls[i].before
    /\ \E i \in MemRegions :
          /\ ~IsSome(MemCalls[i].alignment) /\ IsSome(MemCalls[i].boundary)
          /\ MemCalls[i].ptr - POOL_BASE > MemCalls[i].before

\* The region of bytes bytes at offset o holds a multiple of boundary behind
\* its first byte.
CrossesBoundary(o, bytes, boundary) == (o + bytes - 1) \div boundary > o \div boundary

\* The offset o is a multiple of alignment and the region at o does not cross
\* a multiple of boundary.
FitsAt(o, bytes, alignment, boundary) ==
    /\ o % alignment = 0
    /\ ~CrossesBoundary(o, bytes, boundary)

\* The call asked for alignment A and boundary B with A <= B and 0 < bytes <= B
\* (A and B are powers of two in every request drawn).
IsAlignedCall(c) ==
    /\ IsSome(c.alignment) /\ IsSome(c.boundary)
    /\ Unwrap(c.alignment) <= Unwrap(c.boundary)
    /\ 0 < c.bytes /\ c.bytes <= Unwrap(c.boundary)

\* The multiples of alignment from offset before up to, not including, o.
MultiplesBetween(before, o, alignment) ==
    {k \in {((before + alignment - 1) \div alignment + j) * alignment :
               j \in 0..((o - before) \div alignment)} : k < o}

\* The run of tests::allocate_alignment.
AllocateAlignmentRun ==
    /\ Len(MemCalls) = 3
    /\ \A i \in 1..3 : MemCalls[i].alignment = Some(64) /\ MemCalls[i].boundary = Some(4096)
    /\ MemCalls[1].bytes = 1 /\ MemCalls[2].bytes = 1 /\ MemCalls[3].bytes = 4090

\* C22: allocate(bytes, Some(A), Some(B)) with A <= B powers of two and
\* 0 < bytes <= B returns, when it succeeds, the smallest offset at or above
\* the current one that is a multiple of A and whose region does not cross a
\* multiple of B (no multiple of A below it and at or above the current offset
\* fits), and leaves the pool offset behind the region; from the empty pool the
\* requests (1, 64, 4096), (1, 64, 4096), (4090, 64, 4096) leave the offset at
\* 1, 65 and 4096 + 4090.
C22_SmallestAlignedOffset ==
    /\ \A i \in 1..Len(MemCalls) :
          IsAlignedCall(MemCalls[i]) /\ MemCalls[i].ok =>
             /\ MemCalls[i].ptr - POOL_BASE >= MemCalls[i].before
             /\ FitsAt(MemCalls[i].ptr - POOL_BASE, MemCalls[i].bytes,
                       Unwrap(MemCalls[i].alignment), Unwrap(MemCalls[i].boundary))
             /\ \A k \in MultiplesBetween(MemCalls[i].before, MemCalls[i].ptr - POOL_BASE,
                                          Unwrap(MemCalls[i].alignment)) :
                   CrossesBoundary(k, MemCalls[i].bytes, Unwrap(MemCalls[i].boundary))
             /\ MemCalls[i].after = MemCalls[i].ptr - POOL_BASE + MemCalls[i].bytes
    /\ AllocateAlignmentRun =>
          /\ \A i \in 1..3 : MemCalls[i].ok
          /\ MemCalls[1].after = 1
          /\ MemCalls[2].after = 65
          /\ MemCalls[3].after = 4096 + 4090

\* The run of tests::allocate_alignment was made, its last request moved to the
\* boundary at 4096 past the multiple of 64 at 128.
C22_Witness ==
    /\ AllocateAlignmentRun
    /\ MemCalls[3].ok
    /\ MemCalls[3].before = 65
    /\ MemCalls[3].ptr - POOL_BASE = 4096
    /\ 128 \in MultiplesBetween(65, 4096, 64)

\* The least multiple of unit at or above value.
RoundUp(value, unit) == ((value + unit - 1) \div unit) * unit

\* The start of the region of the call after the alignment and the boundary
\* were seen to.
AdjustedStart(c) ==
    IF IsSome(c.boundary) /\ CrossesBoundary(
          IF IsSome(c.alignment) THEN RoundUp(c.before, Unwrap(c.alignment)) ELSE c.before,
          c.bytes, Unwrap(c.boundary))
    THEN RoundUp(IF IsSome(c.alignment) THEN RoundUp(c.before, Unwrap(c.alignment))
                 ELSE c.before, Unwrap(c.boundary))
    ELSE IF IsSome(c.alignment) THEN RoundUp(c.before, Unwrap(c.alignment)) ELSE c.before

\* C23: an allocation succeeds exactly when its adjusted start plus its size is
\* at most 131072, and then returns the region at the adjusted start; a failed
\* one returns OutOfMemory and leaves the pool offset where it was, without the
\* padding.  Of allocations of 4096 bytes without alignment 32 succeed and the
\* 33rd fails.
C23_FitsOrOutOfMemory ==
    /\ \A i \in 1..Len(MemCalls) :
          /\ MemCalls[i].ok <=> AdjustedStart(MemCalls[i]) + MemCalls[i].bytes <= 131072
          /\ MemCalls[i].ok =>
                /\ MemCalls[i].result = Ok
                /\ MemCalls[i].ptr = POOL_BASE + AdjustedStart(MemCalls[i])
          /\ ~MemCalls[i].ok =>
                /\ MemCalls[i].result = Err("OutOfMemory")
                /\ MemCalls[i].after = MemCalls[i].before
    /\ mem # None /\ Unwrap(mem).mode = "uniform" /\ Unwrap(mem).size = 4096 =>
          /\ Unwrap(mem).count <= 32
          /\ Len(MemCalls) > 0 /\ ~MemCalls[1].ok => Unwrap(mem).count = 32

\* A request failed whose padding alone reached the end of the pool, and the
\* smaller request after it was given the byte that was left.
C23_Witness ==
    /\ Len(MemCalls) = 3
    /\ MemCalls[1].ok
    /\ ~MemCalls[2].ok
    /\ AdjustedStart(MemCalls[2]) > MemCalls[2].before
    /\ AdjustedStart(MemCalls[2]) = 131072
    /\ MemCalls[3].ok
    /\ MemCalls[3].bytes < MemCalls[2].bytes
    /\ MemCalls[3].ptr = POOL_BASE + MemCalls[2].before

\* Thirty-two allocations of 4096 bytes succeeded and the 33rd failed.
PoolFullAfter32Pages ==
    /\ mem # None
    /\ Unwrap(mem).mode = "uniform" /\ Unwrap(mem).size = 4096
    /\ Unwrap(mem).count = 32
    /\ Len(MemCalls) = 1 /\ ~MemCalls[1].ok

\* The sum of the sizes of the first n calls.
RECURSIVE SumBytes(_, _)
SumBytes(calls, n) == IF n = 0 THEN 0 ELSE SumBytes(calls, n - 1) + calls[n].bytes

\* The call asked for no alignment and no boundary.
IsPlainCall(c) == c.alignment = None /\ c.boundary = None

\* C24: allocations without alignment and boundary are adjacent: the k-th
\* pointer is the pool base plus the sum of the sizes of the allocations before
\* it, and a plain allocation after any successful one starts where that one
\* ended.  With allocations of one byte pointer k is base + k up to 131071 and
\* the 131073rd allocation fails.  The pool base is a multiple of 64.
C24_PlainAllocationsAdjacent ==
    /\ POOL_BASE % 64 = 0
    /\ mem # None /\ Unwrap(mem).mode = "mixed" =>
          /\ \A i \in 1..Len(MemCalls) :
                (\A j \in 1..i : IsPlainCall(MemCalls[j]) /\ MemCalls[j].ok) =>
                   MemCalls[i].ptr = POOL_BASE + SumBytes(MemCalls, i - 1)
          /\ \A i \in 2..Len(MemCalls) :
                MemCalls[i - 1].ok /\ IsPlainCall(MemCalls[i]) /\ MemCalls[i].ok =>
                   MemCalls[i].ptr = MemCalls[i - 1].ptr + MemCalls[i - 1].bytes
    /\ mem # None /\ Unwrap(mem).mode = "uniform" /\ Len(MemCalls) > 0 =>
          /\ Unwrap(mem).sum = Unwrap(mem).count * Unwrap(mem).size
          /\ MemCalls[1].ok =>
                MemCalls[1].ptr = POOL_BASE + Unwrap(mem).sum - Unwrap(mem).size
          /\ Unwrap(mem).size = 1 =>
                /\ MemCalls[1].ok =>
                      /\ MemCalls[1].ptr = POOL_BASE + (Unwrap(mem).count - 1)
                      /\ Unwrap(mem).count - 1 <= 131071
                /\ ~MemCalls[1].ok => Unwrap(mem).count = 131072

\* 131072 allocations of one byte were made, the last at base + 131071, and the
\* 131073rd failed.
C24_Witness ==
    /\ mem # None
    /\ Unwrap(mem).mode = "uniform" /\ Unwrap(mem).size = 1
    /\ Unwrap(mem).count = 131072
    /\ Unwrap(mem).offset = 131072
    /\ Len(MemCalls) = 1 /\ ~MemCalls[1].ok

----------------------------------------------------------------------------
(* util.rs and util/collection.rs: the two ArrayMaps exercised apart *)

\* N of ArrayMap<K, V, N>, as in the tests of both modules.
MapCapacity == 3

\* The operations of a run.
MaxMapOps == 5

\* One key more than the map holds, two values.
MapKeys == 1..(MapCapacity + 1)
MapValues == {10, 20}

\* Both maps after new(), no operation made.
InitMap ==
    /\ InitXhc
    /\ NoRing /\ NoEventRing /\ NoMouse /\ NoIrq /\ NoBoot
    /\ mem = None /\ conv = None /\ NoMore
    /\ amap = Some([util |-> ArrayMapNew(MapCapacity),
                    collection |-> ArrayMapNew(MapCapacity),
                    ops |-> 0,
                    last |-> [op |-> "new", key |-> 0, value |-> 0,
                              util |-> [ok |-> TRUE, value |-> None],
                              collection |-> [ok |-> TRUE, value |-> None]],
                    before |-> [util |-> ArrayMapNew(MapCapacity),
                                collection |-> ArrayMapNew(MapCapacity)]])

MapIdle == UNCHANGED <<xhcVars, ringVars, evrVars, mouse, irq, boot, mem, conv, moreVars>>

\* insert(key, value) on both maps.
MapInsert ==
    /\ amap # None
    /\ Unwrap(amap).ops < MaxMapOps
    /\ \E key \in MapKeys, value \in MapValues :
          amap' = Some([util |-> ArrayMapInsert(Unwrap(amap).util, key, value).map,
                        collection |-> CollectionInsert(Unwrap(amap).collection, key, value).map,
                        ops |-> Unwrap(amap).ops + 1,
                        last |-> [op |-> "insert", key |-> key, value |-> value,
                                  util |-> ArrayMapInsertReturns(Unwrap(amap).util, key),
                                  collection |->
                                     [ok |-> CollectionInsert(Unwrap(amap).collection, key, value).ok,
                                      value |-> CollectionInsert(Unwrap(amap).collection, key, value).value]],
                        before |-> [util |-> Unwrap(amap).util,
                                    collection |-> Unwrap(amap).collection]])
    /\ MapIdle

\* remove(key) on both maps.
MapRemove ==
    /\ amap # None
    /\ Unwrap(amap).ops < MaxMapOps
    /\ \E key \in MapKeys :
          amap' = Some([util |-> ArrayMapRemove(Unwrap(amap).util, key).map,
                        collection |-> CollectionRemove(Unwrap(amap).collection, key).map,
                        ops |-> Unwrap(amap).ops + 1,
                        last |-> [op |-> "remove", key |-> key, value |-> 0,
                                  util |-> [ok |-> TRUE,
                                            value |-> ArrayMapRemove(Unwrap(amap).util, key).value],
                                  collection |->
                                     [ok |-> TRUE,
                                      value |-> CollectionRemove(Unwrap(amap).collection, key).value]],
                        before |-> [util |-> Unwrap(amap).util,
                                    collection |-> Unwrap(amap).collection]])
    /\ MapIdle

NextMap == MapInsert \/ MapRemove

SpecMap == InitMap /\ [][NextMap]_vars

\* The last operation was op, on a map of the bench.
MapDid(op) == amap # None /\ Unwrap(amap).last.op = op

\* The keys other than the one of the last operation.
OtherKeys == IF amap = None THEN {} ELSE MapKeys \ {Unwrap(amap).last.key}

\* C25: an ArrayMap holds at most one entry per key after any sequence of
\* inserts and removes: insert(k, v) on a map that holds k returns
\* Some(previous value) and replaces the entry, also when a slot before k's was
\* vacated by an earlier remove, and get(k) then returns v; remove(k) leaves
\* get(k) = None; insert of a new key into a map that holds N other keys
\* fails with NoSpace and changes nothing.  Stated of both implementations.
C25_OneEntryPerKey ==
    amap # None =>
       /\ \A key \in MapKeys :
             /\ Cardinality(ArrayMapHits(Unwrap(amap).util, key)) <= 1
             /\ Cardinality(ArrayMapHits(Unwrap(amap).collection, key)) <= 1
       /\ MapDid("insert") /\ Unwrap(amap).last.util.ok =>
             /\ Unwrap(amap).last.util.value =
                   ArrayMapGet(Unwrap(amap).before.util, Unwrap(amap).last.key)
             /\ ArrayMapGet(Unwrap(amap).util, Unwrap(amap).last.key) =
                   Some(Unwrap(amap).last.value)
       /\ MapDid("insert") /\ Unwrap(amap).last.collection.ok =>
             /\ Unwrap(amap).last.collection.value =
                   CollectionGet(Unwrap(amap).before.collection, Unwrap(amap).last.key)
             /\ CollectionGet(Unwrap(amap).collection, Unwrap(amap).last.key) =
                   Some(Unwrap(amap).last.value)
       /\ MapDid("insert") =>
             /\ Unwrap(amap).last.util.ok <=>
                   \/ Unwrap(amap).last.key \in ArrayMapKeys(Unwrap(amap).before.util)
                   \/ Cardinality(ArrayMapKeys(Unwrap(amap).before.util)) < MapCapacity
             /\ Unwrap(amap).last.collection.ok <=>
                   \/ Unwrap(amap).last.key \in ArrayMapKeys(Unwrap(amap).before.collection)
                   \/ Cardinality(ArrayMapKeys(Unwrap(amap).before.collection)) < MapCapacity
             /\ ~Unwrap(amap).last.util.ok => Unwrap(amap).util = Unwrap(amap).before.util
             /\ ~Unwrap(amap).last.collection.ok =>
                   Unwrap(amap).collection = Unwrap(amap).before.collection
       /\ MapDid("remove") =>
             /\ ArrayMapGet(Unwrap(amap).util, Unwrap(amap).last.key) = None
             /\ CollectionGet(Unwrap(amap).collection, Unwrap(amap).last.key) = None

\* C26: in both ArrayMap implementations remove(k) of a key the map holds
\* returns k's value, get(k) is None afterwards and the entry of every other
\* key is what it was; remove of a key the map does not hold returns None and
\* changes nothing.
C26_RemoveOnlyThatKey ==
    MapDid("remove") =>
       /\ Unwrap(amap).last.util.value =
             ArrayMapGet(Unwrap(amap).before.util, Unwrap(amap).last.key)
       /\ Unwrap(amap).last.collection.value =
             CollectionGet(Unwrap(amap).before.collection, Unwrap(amap).last.key)
       /\ ArrayMapGet(Unwrap(amap).util, Unwrap(amap).last.key) = None
       /\ CollectionGet(Unwrap(amap).collection, Unwrap(amap).last.key) = None
       /\ \A key \in OtherKeys :
             /\ ArrayMapGet(Unwrap(amap).util, key) =
                   ArrayMapGet(Unwrap(amap).before.util, key)
             /\ CollectionGet(Unwrap(amap).collection, key) =
                   CollectionGet(Unwrap(amap).before.collection, key)
       /\ Unwrap(amap).last.util.value = None =>
             Unwrap(amap).util = Unwrap(amap).before.util
       /\ Unwrap(amap).last.collection.value = None =>
             Unwrap(amap).collection = Unwrap(amap).before.collection

----------------------------------------------------------------------------
(* The driver with a pool that runs out *)

\* What is left of the pool when the run starts: all that Xhc::initialize
\* left, or so little that one of the allocations made for a device fails
\* (the rest is taken to be held by devices configured before).
PoolLeft == {0, 2048, 2304, 2816, 2880, 2944, 3968}

OomOffsets == {SegmentTableAlloc.offset} \cup {MEMORY_POOL_BYTES - k : k \in PoolLeft}

\* A High Speed device on port p was taken through configure_port and the port
\* reset, the EnableSlotCommand is on the command ring; the pool is at o.
OomEnablingSlot(p, o) ==
    MousePortReset(ConfigurePortOp([MouseAttached(p) EXCEPT !.OFFSET = o], p, TRUE), p)

InitOom ==
    /\ \E p \in Ports, o \in OomOffsets : XhcIs(OomEnablingSlot(p, o))
    /\ completed = {}
    /\ NoRing /\ NoEventRing /\ NoBench

\* The TransferEvent of GetDescriptor(Configuration) is handled for a device in
\* phase 2 whose reply is b, with the loop of initialize_phase2 at the mouse
\* interface of b (as for SpecHid): ClassDriver::new, the endpoints, phase 3,
\* SetConfiguration.
ConfigurationReplyAtInterface(slot_id, b) ==
    /\ halted = "no"
    /\ IsSome(FindBySlot(St, slot_id))
    /\ Unwrap(FindBySlot(St, slot_id)).initialize_phase = 2
    /\ ~Unwrap(FindBySlot(St, slot_id)).is_initialized
    /\ \E ptr \in IssuedKeys(Unwrap(FindBySlot(St, slot_id))) :
          /\ <<slot_id, ptr>> \notin completed
          /\ IsSome(ArrayMapGet(Unwrap(FindBySlot(St, slot_id)).setup_stage_map, ptr))
          /\ TrbGetBits(DevDeref(Unwrap(FindBySlot(St, slot_id)),
                                 Unwrap(ArrayMapGet(Unwrap(FindBySlot(St, slot_id)).setup_stage_map,
                                                    ptr))), 8, 8) = REQUEST_GET_DESCRIPTOR
          /\ BecomesXhc(OnTransferEventTail(
                 St,
                 DevDone(St, slot_id,
                         Phase2AtInterface(
                             [DevCtx(St, slot_id) EXCEPT
                                 !.d.setup_stage_map = ArrayMapRemove(@, ptr).map],
                             b, Min(MouseInterfaces(b)))),
                 slot_id))
          /\ completed' = completed \cup {<<slot_id, ptr>>}

OnConfigurationReplyAtInterface ==
    /\ halted = "no"
    /\ \E slot_id \in SlotIds, b \in HidConfigurations :
          ConfigurationReplyAtInterface(slot_id, b)

NextOom ==
    \/ OnCommandCompletionEvent
    \/ \E slot_id \in SlotIds : HwAddressDevice(slot_id)
    \/ OnTransferEvent
    \/ OnConfigurationReplyAtInterface
    \/ OnControlTransferEvent

SpecOom == InitOom /\ [][NextOom]_vars

\* The requests allocate_device and address_device make for a device, and
\* those ClassDriver::new makes for a mouse, in their order.
DeviceRequests ==
    <<[bytes |-> SIZE_OF_DEVICE_CONTEXT, alignment |-> Some(64), boundary |-> Some(4096)],
      [bytes |-> SIZE_OF_INPUT_CONTEXT, alignment |-> Some(64), boundary |-> Some(4096)],
      [bytes |-> DATA_BUF_LEN, alignment |-> None, boundary |-> None],
      [bytes |-> TRANSFER_RING_LEN * SIZE_OF_TRB, alignment |-> Some(64),
       boundary |-> Some(65536)]>>

DriverRequests ==
    <<[bytes |-> SIZE_OF_HID_MOUSE_DRIVER, alignment |-> None, boundary |-> None],
      [bytes |-> HID_BUF_LEN, alignment |-> None, boundary |-> None]>>

\* The transfer rings configure_endpoints allocates for n endpoints.
RingRequests(n) ==
    [i \in 1..n |-> [bytes |-> TRANSFER_RING_LEN * SIZE_OF_TRB, alignment |-> Some(64),
                     boundary |-> Some(65536)]]

\* One of the requests, made in their order from pool offset offset, fails.
RECURSIVE PoolExhausted(_, _)
PoolExhausted(offset, requests) ==
    IF requests = <<>> THEN FALSE
    ELSE \/ ~Allocate(offset, Head(requests).bytes, Head(requests).alignment,
                      Head(requests).boundary).ok
         \/ PoolExhausted(Allocate(offset, Head(requests).bytes, Head(requests).alignment,
                                   Head(requests).boundary).offset,
                          Tail(requests))

\* The CommandCompletionEvent of the EnableSlotCommand is handled for the
\* addressing port in EnablingSlot: address_device runs for slot_id.
EnableSlotCompletes(slot_id) ==
    /\ halted = "no"
    /\ IsSome(addressing_port)
    /\ port_config_phase[Unwrap(addressing_port)] = "EnablingSlot"
    /\ \E i \in 0..MaxCmdIdx, enabled \in BOOLEAN :
          /\ TrbType(command_ring.mem[i]) = TYPE_ENABLE_SLOT_COMMAND
          /\ Becomes(OnCommandCompletionEventOp(
                         St, HwCommandCompletionEvent(slot_id, CommandSlot(St, i)), enabled))

\* The TransferEvent of SetConfiguration is handled for a device in phase 3 on
\* a port of known speed: the device is initialized and configure_endpoints
\* runs.
SetConfigurationCompletes(slot_id) ==
    /\ halted = "no"
    /\ IsSome(FindBySlot(St, slot_id))
    /\ Unwrap(FindBySlot(St, slot_id)).initialize_phase = 3
    /\ port_config_phase[DevPortId(St, slot_id)] = "InitializingDevice"
    /\ IsSome(PortPortSpeed(portsc[DevPortId(St, slot_id)]))
    /\ \E ptr \in IssuedKeys(Unwrap(FindBySlot(St, slot_id))) :
          /\ IsSome(ArrayMapGet(Unwrap(FindBySlot(St, slot_id)).setup_stage_map, ptr))
          /\ TrbGetBits(DevDeref(Unwrap(FindBySlot(St, slot_id)),
                                 Unwrap(ArrayMapGet(Unwrap(FindBySlot(St, slot_id)).setup_stage_map,
                                                    ptr))), 8, 8) = REQUEST_SET_CONFIGURATION
          /\ BecomesXhc(OnTransferEventOp(
                            St, HwTransferEvent(slot_id, DEFAULT_CONTROL_PIPE_ID, ptr, 1, 0),
                            <<>>))

\* The errors that carry the allocator's OutOfMemory: AllocError of
\* allocate_device, TrbError of Ring::initialize.
OutOfMemoryErrors == {DeviceError(Err("AllocError")), DeviceError(Err("TrbError"))}

----------------------------------------------------------------------------
(* A port whose PORTSC speed id is none of 1..5 *)

\* The TransferEvent of SetConfiguration is handled for a device in phase 3:
\* the device is initialized and configure_endpoints runs.
SetConfigurationCompletesAnySpeed(slot_id) ==
    /\ halted = "no"
    /\ IsSome(FindBySlot(St, slot_id))
    /\ Unwrap(FindBySlot(St, slot_id)).initialize_phase = 3
    /\ port_config_phase[DevPortId(St, slot_id)] = "InitializingDevice"
    /\ \E ptr \in IssuedKeys(Unwrap(FindBySlot(St, slot_id))) :
          /\ IsSome(ArrayMapGet(Unwrap(FindBySlot(St, slot_id)).setup_stage_map, ptr))
          /\ TrbGetBits(DevDeref(Unwrap(FindBySlot(St, slot_id)),
                                 Unwrap(ArrayMapGet(Unwrap(FindBySlot(St, slot_id)).setup_stage_map,
                                                    ptr))), 8, 8) = REQUEST_SET_CONFIGURATION
          /\ BecomesXhc(OnTransferEventOp(
                            St, HwTransferEvent(slot_id, DEFAULT_CONTROL_PIPE_ID, ptr, 1, 0),
                            <<>>))

UnknownSpeedErrors ==
    {Err("UnknownXHCISpeedID"), DeviceError(Err("UnknownXHCISpeedID"))}

\* C28: when the speed id in PORTSC of the device's port is none of 1..5,
\* UsbDevice::address_device, run for the EnableSlot completion, and
\* configure_endpoints both return UnknownXHCISpeedID: the handler does not
\* panic, the event is dropped with that error and the controller goes on
\* processing events.
C28_UnknownSpeedReturned ==
    [][\A slot_id \in SlotIds :
          /\ (/\ EnableSlotCompletes(slot_id)
              /\ PortPortSpeed(portsc[Unwrap(addressing_port)]) = None
              /\ ~PoolExhausted(OFFSET, DeviceRequests))
                => halted' = "no" /\ result' \in UnknownSpeedErrors
          /\ (/\ SetConfigurationCompletesAnySpeed(slot_id)
              /\ PortPortSpeed(portsc[DevPortId(St, slot_id)]) = None)
                => halted' = "no" /\ result' \in UnknownSpeedErrors]_vars

----------------------------------------------------------------------------
(* usb/devmgr.rs: control_in and control_out exercised apart *)

\* usb/trb/mod.rs: the transfer types of SetupStageTrb.
TrbModTransferTypes == [NO_DATA_STAGE |-> 0, OUT_DATA_STAGE |-> 2, IN_DATA_STAGE |-> 3]

\* Calls are made while the default control pipe ring is written below this
\* index.
MaxControlIdx == 12

\* The requests: GetDescriptor(Device), GetDescriptor(Configuration);
\* SetConfiguration(1), SET_PROTOCOL(boot) and a class request with data.
ControlInSetups ==
    {SetupDataNew(RequestTypeNew(DIRECTION_IN, TYPE_STANDARD, RECIPIENT_DEVICE),
                  REQUEST_GET_DESCRIPTOR, v, 0, DATA_BUF_LEN) : v \in {256, 512}}

ControlOutSetups ==
    {SetupDataNew(RequestTypeNew(DIRECTION_OUT, TYPE_STANDARD, RECIPIENT_DEVICE),
                  REQUEST_SET_CONFIGURATION, 1, 0, 0),
     SetupDataNew(RequestTypeNew(DIRECTION_OUT, TYPE_CLASS, RECIPIENT_INTERFACE),
                  REQUEST_SET_PROTOCOL, 0, 0, 0),
     SetupDataNew(RequestTypeNew(DIRECTION_OUT, TYPE_CLASS, RECIPIENT_INTERFACE),
                  REQUEST_SET_CONFIGURATION, 512, 0, 8)}

\* The default control pipe ring of the slot's device.
ControlRing(s, slot_id) ==
    Unwrap(ArrayMapGet(Unwrap(FindBySlot(s, slot_id)).transfer_rings, DEFAULT_CONTROL_PIPE_ID))

\* The device of the slot may be asked for a control transfer.
ControlCallable(slot_id) ==
    /\ halted = "no"
    /\ IsSome(FindBySlot(St, slot_id))
    /\ ControlRing(St, slot_id).write_index < MaxControlIdx

\* The buffer of a transfer with a data stage is the device's data_buf.
ControlBuf(slot_id, with_data) ==
    IF with_data THEN Some(Unwrap(FindBySlot(St, slot_id)).data_buf) ELSE None

\* control_in(DEFAULT_CONTROL_PIPE_ID, setup_data, buf, len, None)
ControlInCalled(slot_id, setup_data, with_data) ==
    /\ ControlCallable(slot_id)
    /\ Becomes(DevDone(St, slot_id,
                       ControlIn(DevCtx(St, slot_id), DEFAULT_CONTROL_PIPE_ID, setup_data,
                                 ControlBuf(slot_id, with_data),
                                 IF with_data THEN DATA_BUF_LEN ELSE 0, None)))

\* control_out(DEFAULT_CONTROL_PIPE_ID, setup_data, buf, len, None)
ControlOutCalled(slot_id, setup_data, with_data) ==
    /\ ControlCallable(slot_id)
    /\ Becomes(DevDone(St, slot_id,
                       ControlOut(DevCtx(St, slot_id), DEFAULT_CONTROL_PIPE_ID, setup_data,
                                  ControlBuf(slot_id, with_data),
                                  IF with_data THEN 8 ELSE 0, None)))

ControlInCall ==
    /\ halted = "no"
    /\ \E slot_id \in SlotIds, setup_data \in ControlInSetups, with_data \in BOOLEAN :
          ControlInCalled(slot_id, setup_data, with_data)

ControlOutCall ==
    /\ halted = "no"
    /\ \E slot_id \in SlotIds, setup_data \in ControlOutSetups, with_data \in BOOLEAN :
          ControlOutCalled(slot_id, setup_data, with_data)

\* The configured mouse of SpecHid, its driver calling control_in and
\* control_out.
NextControl == ControlInCall \/ ControlOutCall

SpecControl == InitHid /\ [][NextControl]_vars

\* The transfer type of the TRB the call pushed first: the slot of the ring
\* that was next to be written.
PushedTransferType(slot_id) ==
    TrbGetBits(ControlRing([St EXCEPT !.devices = devices'], slot_id)
                   .mem[ControlRing(St, slot_id).write_index], 112, 2)

PushedTrbType(slot_id) ==
    TrbType(ControlRing([St EXCEPT !.devices = devices'], slot_id)
                .mem[ControlRing(St, slot_id).write_index])

\* C29: the SetupStage TRB of a control OUT transfer with a data stage carries
\* transfer type 2, that of a control IN transfer with a data stage 3 and that
\* of a transfer without data stage 0: so say the constants of both TRB
\* modules (usb/ring.rs, usb/trb/mod.rs), and so are the TRBs that control_in
\* and control_out push.
C29_SetupStageTransferType ==
    /\ TRANSFER_TYPE_NO_DATA_STAGE = 0 /\ TRANSFER_TYPE_OUT_DATA_STAGE = 2
    /\ TRANSFER_TYPE_IN_DATA_STAGE = 3
    /\ TrbModTransferTypes = [NO_DATA_STAGE |-> 0, OUT_DATA_STAGE |-> 2, IN_DATA_STAGE |-> 3]
    /\ [][\A slot_id \in SlotIds, with_data \in BOOLEAN :
             /\ \A setup_data \in ControlOutSetups :
                   ControlOutCalled(slot_id, setup_data, with_data)
                      => /\ PushedTrbType(slot_id) = TYPE_SETUP_STAGE
                         /\ PushedTransferType(slot_id) = IF with_data THEN 2 ELSE 0
             /\ \A setup_data \in ControlInSetups :
                   ControlInCalled(slot_id, setup_data, with_data)
                      => /\ PushedTrbType(slot_id) = TYPE_SETUP_STAGE
                         /\ PushedTransferType(slot_id) = IF with_data THEN 3 ELSE 0]_vars

----------------------------------------------------------------------------
(* usb/port.rs: PortSpeed::convert_interval exercised apart *)

\* bInterval is a byte of the Endpoint descriptor.
Intervals == 0..255

PortSpeeds == {FULL_SPEED, LOW_SPEED, HIGH_SPEED, SUPER_SPEED, SUPER_SPEED_PLUS}

EndpointTypes == {ENDPOINT_TYPE_CONTROL, ENDPOINT_TYPE_ISOCHRONOUS, ENDPOINT_TYPE_BULK,
                  ENDPOINT_TYPE_INTERRUPT}

\* What a build makes of convert_interval: the u32 subtraction interval - 1
\* at interval 0 panics where overflow is checked and wraps to 2^32 - 1 where
\* it is not; the value is kept as ConvertInterval has it, -1 standing for
\* 2^32 - 1 (equal modulo 2^32, so modulo 256 as well).
ConvertIntervalOutcomes(speed, endpoint_type, interval) ==
    IF speed \notin {FULL_SPEED, LOW_SPEED} /\ interval = 0
    THEN {[panic |-> TRUE, value |-> 0],
          [panic |-> FALSE, value |-> ConvertInterval(speed, endpoint_type, interval)]}
    ELSE {[panic |-> FALSE, value |-> ConvertInterval(speed, endpoint_type, interval)]}

\* An endpoint of some type and interval on a port of some speed, its context
\* not yet written.
InitConv ==
    /\ InitXhc
    /\ NoRing /\ NoEventRing /\ NoMouse /\ NoIrq /\ NoBoot
    /\ mem = None /\ amap = None /\ NoMore
    /\ \E speed \in PortSpeeds, endpoint_type \in EndpointTypes, interval \in Intervals :
          conv = Some([speed |-> speed, endpoint_type |-> endpoint_type,
                       interval |-> interval, done |-> FALSE, panic |-> FALSE,
                       value |-> 0, field |-> 0])

\* configure_endpoints: ep_ctx.set_interval(port_speed.convert_interval(..) as u8)
SetInterval ==
    /\ conv # None
    /\ ~Unwrap(conv).done
    /\ \E out \in ConvertIntervalOutcomes(Unwrap(conv).speed, Unwrap(conv).endpoint_type,
                                          Unwrap(conv).interval) :
          conv' = Some([Unwrap(conv) EXCEPT
                           !.done = TRUE,
                           !.panic = out.panic,
                           !.value = out.value,
                           !.field = IF out.panic THEN 0 ELSE out.value % 256])
    /\ UNCHANGED <<xhcVars, ringVars, evrVars, mouse, irq, boot, mem, amap, moreVars>>

NextConv == SetInterval

SpecConv == InitConv /\ [][NextConv]_vars

\* The index of the highest one bit of n, -1 for 0.
HighestBit(n) == IF n = 0 THEN -1 ELSE CHOOSE i \in 0..7 : 2 ^ i <= n /\ n < 2 ^ (i + 1)

\* The interval the claim gives for a speed, an endpoint type and a bInterval.
ClaimedInterval(speed, endpoint_type, interval) ==
    IF speed \in {FULL_SPEED, LOW_SPEED}
    THEN IF endpoint_type = ENDPOINT_TYPE_ISOCHRONOUS THEN interval * 2
         ELSE HighestBit(interval) + 3
    ELSE interval - 1

\* C30: for every interval of 0..255 convert_interval returns, and the 8-bit
\* interval field of the endpoint context takes without wrap-around or
\* truncation: interval * 2 for a Full or Low Speed Isochronous endpoint;
\* msb1(interval) + 3 for the other types at Full or Low Speed, msb1(0) taken
\* as -1 (8 gives 6, 0 gives 2); interval - 1 at High, Super and SuperPlus
\* Speed.
C30_ConvertInterval ==
    conv # None /\ Unwrap(conv).done =>
       /\ ~Unwrap(conv).panic
       /\ Unwrap(conv).value = ClaimedInterval(Unwrap(conv).speed, Unwrap(conv).endpoint_type,
                                              Unwrap(conv).interval)
       /\ Unwrap(conv).value \in 0..255
       /\ Unwrap(conv).field = Unwrap(conv).value

----------------------------------------------------------------------------
(* main.rs: init_xhc after sti, preempted by xhc_interrupt_handler.         *)
(* The mainline runs its loop over the ports one memory or register access *)
(* at a time; the handler, entered through an interrupt gate, runs each of *)
(* its events to the end between two accesses of the mainline.              *)

\* The mainline goes on to the next port, or to the hlt loop after the last.
MainlineAdvance(m) ==
    IF m.i < MaxPorts THEN [pc |-> "port_at", i |-> m.i + 1]
    ELSE [pc |-> "hlt", i |-> m.i]

\* The body of the loop of init_xhc: port_at(i) and the test of is_connected.
InitXhcPortAt(s, m) ==
    [s |-> s,
     m |-> IF PortIsConnected(s.portsc[m.i]) THEN [m EXCEPT !.pc = "configure_port"]
           ELSE MainlineAdvance(m)]

\* configure_port: the test of the port's phase.
ConfigurePortTest(s, m) ==
    [s |-> s,
     m |-> IF s.port_config_phase[m.i] = "NotConnected"
           THEN [m EXCEPT !.pc = "is_connected"]
           ELSE MainlineAdvance(m)]

\* reset_port with a buffer of one TRB allocated when the port is reset.
ResetPortAccessAllocating(s, m, enabled) ==
    CASE m.pc = "is_connected" ->
           [s |-> s,
            m |-> IF PortIsConnected(s.portsc[m.i])
                  THEN [m EXCEPT !.pc = "addressing_port"]
                  ELSE MainlineAdvance(m)]
      [] m.pc = "addressing_port" ->
           [s |-> s,
            m |-> IF IsSome(s.addressing_port) THEN [m EXCEPT !.pc = "store_waiting"]
                  ELSE [m EXCEPT !.pc = "phase"]]
      [] m.pc = "store_waiting" ->
           [s |-> [s EXCEPT !.port_config_phase[m.i] = "WaitingAddressed"],
            m |-> MainlineAdvance(m)]
      [] m.pc = "phase" ->
           IF s.port_config_phase[m.i] \in {"NotConnected", "WaitingAddressed"}
           THEN [s |-> s, m |-> [m EXCEPT !.pc = "store_addressing_port"]]
           ELSE [s |-> [s EXCEPT !.result = Err("InvalidPhase")],
                 m |-> MainlineAdvance(m)]
      [] m.pc = "store_addressing_port" ->
           [s |-> [s EXCEPT !.addressing_port = Some(m.i)],
            m |-> [m EXCEPT !.pc = "store_phase"]]
      [] m.pc = "store_phase" ->
           [s |-> [s EXCEPT !.port_config_phase[m.i] = "ResettingPort"],
            m |-> [m EXCEPT !.pc = "reset"]]
      [] m.pc = "reset" ->
           [s |-> [s EXCEPT !.portsc[m.i] = PortReset(@, enabled),
                            !.OFFSET = Allocate(@, SIZE_OF_TRB, None, None).offset],
            m |-> MainlineAdvance(m)]

\* reset_port, one access at a time: the read of PORTSC, the read of
\* addressing_port, the read of the port's phase, the store of
\* addressing_port, the store of the phase, and port.reset().
ResetPortAccess(s, m, enabled) ==
    CASE m.pc = "is_connected" ->
           [s |-> s,
            m |-> IF PortIsConnected(s.portsc[m.i])
                  THEN [m EXCEPT !.pc = "addressing_port"]
                  ELSE MainlineAdvance(m)]
      [] m.pc = "addressing_port" ->
           [s |-> s,
            m |-> IF IsSome(s.addressing_port) THEN [m EXCEPT !.pc = "store_waiting"]
                  ELSE [m EXCEPT !.pc = "phase"]]
      [] m.pc = "store_waiting" ->
           [s |-> [s EXCEPT !.port_config_phase[m.i] = "WaitingAddressed"],
            m |-> MainlineAdvance(m)]
      [] m.pc = "phase" ->
           IF s.port_config_phase[m.i] \in {"NotConnected", "WaitingAddressed"}
           THEN [s |-> s, m |-> [m EXCEPT !.pc = "store_addressing_port"]]
           ELSE [s |-> [s EXCEPT !.result = Err("InvalidPhase")],
                 m |-> MainlineAdvance(m)]
      [] m.pc = "store_addressing_port" ->
           [s |-> [s EXCEPT !.addressing_port = Some(m.i)],
            m |-> [m EXCEPT !.pc = "store_phase"]]
      [] m.pc = "store_phase" ->
           [s |-> [s EXCEPT !.port_config_phase[m.i] = "ResettingPort"],
            m |-> [m EXCEPT !.pc = "reset"]]
      [] m.pc = "reset" ->
           [s |-> [s EXCEPT !.portsc[m.i] = PortReset(@, enabled)],
            m |-> MainlineAdvance(m)]

ResetPortPcs == {"is_connected", "addressing_port", "store_waiting", "phase",
                 "store_addressing_port", "store_phase", "reset"}

\* The driver's state becomes r.s and the mainline's position r.m.
MainlineBecomes(r) ==
    /\ XhcBecomes(r.s)
    /\ mainline' = Some(r.m)
    /\ UNCHANGED <<completed, ringVars, evrVars, mouse, irq, boot, mem, amap, conv,
                   lateVars>>

\* init_xhc is at the head of its loop.
InitXhcLoop ==
    /\ halted = "no"
    /\ mainline # None
    /\ Unwrap(mainline).pc = "port_at"
    /\ MainlineBecomes(InitXhcPortAt(St, Unwrap(mainline)))

\* init_xhc is in configure_port.
MainlineConfigurePort ==
    /\ halted = "no"
    /\ mainline # None
    /\ Unwrap(mainline).pc = "configure_port"
    /\ MainlineBecomes(ConfigurePortTest(St, Unwrap(mainline)))

\* init_xhc is in reset_port.
MainlineResetPort ==
    /\ halted = "no"
    /\ mainline # None
    /\ Unwrap(mainline).pc \in ResetPortPcs
    /\ \E enabled \in BOOLEAN :
          MainlineBecomes(ResetPortAccess(St, Unwrap(mainline), enabled))

\* The ports that have a High Speed device attached since before the boot.
AttachedAtBoot(S) ==
    [XhcNew EXCEPT
        !.portsc = [p \in Ports |->
                       IF p \in S
                       THEN SetBit(SetBit(SetBits(PORTSC_POWERED, 10, 4, HIGH_SPEED),
                                          0, TRUE), 17, TRUE)
                       ELSE PORTSC_POWERED]]

\* Xhc::initialize and run are done and interrupts are enabled; init_xhc is
\* about to look at port 1.
InitPreempt ==
    /\ \E S \in SUBSET Ports : XhcIs(AttachedAtBoot(S))
    /\ completed = {}
    /\ NoRing /\ NoEventRing /\ NoMouse /\ NoIrq /\ NoBoot
    /\ mem = None /\ amap = None /\ conv = None /\ NoLate
    /\ mainline = Some([pc |-> "port_at", i |-> 1])

\* The steps of the mainline, and between them the events the handler
\* processes and the steps of the controller.
NextPreempt ==
    \/ InitXhcLoop
    \/ MainlineConfigurePort
    \/ MainlineResetPort
    \/ OnPortStatusChangeEvent
    \/ OnCommandCompletionEvent
    \/ OnControlTransferEvent
    \/ \E slot_id \in SlotIds : HwAddressDevice(slot_id)

SpecPreempt == InitPreempt /\ [][NextPreempt]_vars

\* addressing_port names p, which is being addressed, before and after the step.
StillAddressed(p) ==
    /\ addressing_port = Some(p)
    /\ port_config_phase[p] \in AddressingPhases
    /\ port_config_phase'[p] \in AddressingPhases

\* C31: with the handler preempting the mainline anywhere in its
\* configure_port loop, at most one port is in ResettingPort, EnablingSlot or
\* AddressingDevice and addressing_port is Some of it, and no step overwrites
\* addressing_port while the port it names is still being addressed.
C31_SingleAddressingPreempted ==
    /\ [](/\ Cardinality({p \in Ports : port_config_phase[p] \in AddressingPhases}) <= 1
          /\ \A p \in Ports :
                port_config_phase[p] \in AddressingPhases => addressing_port = Some(p))
    /\ [][\A p \in Ports : StillAddressed(p) => addressing_port' = Some(p)]_vars

\* The regions of the pool the driver holds: those of Xhc::initialize, and for
\* the device of each slot its contexts, its data buffer and its transfer
\* rings; each with its owner, its address and its size.
InitializeRegions ==
    {[owner |-> <<"dcbaa">>, ptr |-> DcbaaAlloc.ptr,
      bytes |-> SIZE_OF_POINTER * (NUM_DEVICE_SLOTS + 1)],
     [owner |-> <<"command_ring">>, ptr |-> CommandRingAlloc.ptr,
      bytes |-> COMMAND_RING_LEN * SIZE_OF_TRB],
     [owner |-> <<"event_ring">>, ptr |-> EventRingAlloc.ptr,
      bytes |-> EVENT_RING_LEN * SIZE_OF_TRB],
     [owner |-> <<"segment_table">>, ptr |-> SegmentTableAlloc.ptr,
      bytes |-> SIZE_OF_SEGMENT_TABLE_ENTRY]}

DeviceRegions(slot_id, d) ==
    {[owner |-> <<slot_id, "device_context">>, ptr |-> d.device_context,
      bytes |-> SIZE_OF_DEVICE_CONTEXT],
     [owner |-> <<slot_id, "input_context">>, ptr |-> d.input_context,
      bytes |-> SIZE_OF_INPUT_CONTEXT],
     [owner |-> <<slot_id, "data_buf">>, ptr |-> d.data_buf, bytes |-> DATA_BUF_LEN]}
    \cup {[owner |-> <<slot_id, "transfer_ring", i>>,
           ptr |-> Unwrap(d.transfer_rings[i])[2].buffer,
           bytes |-> Unwrap(d.transfer_rings[i])[2].len * SIZE_OF_TRB] :
             i \in {k \in DOMAIN d.transfer_rings : IsSome(d.transfer_rings[k])}}

HeldRegions ==
    InitializeRegions
    \cup UNION {DeviceRegions(Unwrap(devices[i])[1], Unwrap(devices[i])[2]) :
                   i \in {k \in DOMAIN devices : IsSome(devices[k])}}

\* C32: in every interleaving of init_xhc's loop with the handler, no step of
\* the mainline moves the pool offset (the mainline does not allocate once
\* interrupts are enabled, so allocate runs only inside the handler, one call
\* after the other), and the regions handed out are pairwise disjoint and lie
\* below the offset.
C32_MainlineNeverAllocates ==
    /\ [][mainline' # mainline => OFFSET' = OFFSET]_vars
    /\ [](\A r \in HeldRegions :
             /\ r.ptr >= POOL_BASE
             /\ r.ptr + r.bytes <= POOL_BASE + OFFSET
             /\ \A q \in HeldRegions :
                   q.owner # r.owner => r.ptr + r.bytes <= q.ptr \/ q.ptr + q.bytes <= r.ptr)

\* The handler has allocated a device while the mainline is inside reset_port.
C32_Witness ==
    /\ mainline # None
    /\ Unwrap(mainline).pc \in ResetPortPcs
    /\ OFFSET > SegmentTableAlloc.offset
    /\ \E slot_id \in SlotIds : IsSome(FindBySlot(St, slot_id))

----------------------------------------------------------------------------
(* usb/trb/ring.rs: EventRing against a producer that keeps off the slot at *)
(* ERDP                                                                     *)

\* An EventRing of usb/trb/ring.rs of two or three slots after initialize;
\* the controller has written nothing yet.
InitDeliver ==
    /\ InitXhc
    /\ NoRing /\ NoBench
    /\ evr_impl = "trb"
    /\ \E len \in 2..MaxEvrLen :
          /\ evr = TrbEventRingInitialize(len).ring
          /\ erdp = TrbEventRingInitialize(len).erdp
    /\ hw = [enqueue |-> 0, cycle |-> TRUE, produced |-> 0, written |-> <<>>]
    /\ consumed = 0
    /\ poll = [pc |-> "idle", ret |-> None]

\* The controller writes an event at its enqueue pointer with its producer
\* cycle state and advances, toggling the state on the wrap; it does not
\* advance onto the slot ERDP points to.
HwProduceEvent ==
    /\ hw.produced < MaxEvents
    /\ (hw.enqueue + 1) % evr.len # EvrSlot(evr, ErdpPointer(erdp))
    /\ \E residual \in InputResiduals :
          /\ evr' = [evr EXCEPT !.mem[hw.enqueue] =
                                    HwEvent(hw.produced + 1, residual, hw.cycle)]
          /\ hw' = [enqueue |-> (hw.enqueue + 1) % evr.len,
                    cycle |-> IF hw.enqueue + 1 = evr.len THEN ~hw.cycle ELSE hw.cycle,
                    produced |-> hw.produced + 1,
                    written |-> Append(hw.written,
                                       HwEvent(hw.produced + 1, residual, hw.cycle))]
    /\ UNCHANGED <<evr_impl, erdp, consumed, poll, xhcVars, ringVars, benchVars>>

NextDeliver ==
    \/ HwProduceEvent
    \/ PollEmpty
    \/ PollCheck
    \/ PollPop
    \/ PollCopy

SpecDeliver == InitDeliver /\ [][NextDeliver]_vars

\* poll is about to look at a slot whose cycle bit differs from the tracked one.
PollFindsNothing ==
    /\ poll.pc = "idle"
    /\ GenericTrbCycleBit(evr.mem[EvrSlot(evr, ErdpPointer(erdp))]) # evr.cycle_bit

\* C33: against a producer that keeps off the slot at ERDP, the k-th TRB that
\* poll returns is the k-th event produced, over any number of wraps (so the
\* returned sequence is the produced one, nothing lost, doubled or reordered),
\* poll finds an event whenever one is pending, and a poll that finds the
\* cycle bit of the slot different from the tracked one returns none and
\* leaves ERDP and the tracked cycle bit as they were.
C33_DeliversInOrder ==
    /\ [](/\ consumed <= hw.produced
          /\ poll.pc = "idle" /\ IsSome(poll.ret) =>
                /\ consumed >= 1
                /\ Unwrap(poll.ret) = hw.written[consumed]
          /\ poll.pc = "idle" /\ consumed < hw.produced => ~PollFindsNothing)
    /\ [][PollFindsNothing /\ poll' # poll =>
             /\ poll'.pc = "idle" /\ poll'.ret = None
             /\ erdp' = erdp
             /\ evr'.cycle_bit = evr.cycle_bit]_vars

\* Seven events went through a ring of three slots, two wraps, and the poll
\* after the last of them found nothing.
C33_Witness ==
    /\ evr_impl = "trb" /\ evr.len = 3
    /\ hw.produced = 7 /\ Len(hw.written) = 7
    /\ consumed = 7
    /\ poll.pc = "idle" /\ poll.ret = None

----------------------------------------------------------------------------
(* The producer rings with a controller that consumes at its own pace *)

\* A ring after initialize, and the controller at its base with consumer
\* cycle state 1, nothing consumed.
InitConsume ==
    /\ InitXhc
    /\ NoEventRing /\ NoMouse /\ NoIrq /\ NoBoot
    /\ mem = None /\ amap = None /\ conv = None /\ mainline = None
    /\ walk = None /\ pool = None
    /\ ring_impl \in {"ring", "trb"}
    /\ \E len \in RingLens :
          ring = IF ring_impl = "ring"
                 THEN RingInitialize(RingBuffer(len), len)
                 ELSE TrbRingInitialize(RingBuffer(len), len)
    /\ pushes = 0
    /\ copy = [pc |-> "idle"]
    /\ hc_seen = None
    /\ hc = Some([dequeue |-> 0, cycle |-> TRUE, consumed |-> 0])

\* The controller takes the TRB at its dequeue pointer when the TRB's cycle
\* bit is its consumer cycle state: it follows a Link TRB, toggling the state
\* if the TRB says so, and consumes any other TRB.
HcConsume ==
    /\ hc # None
    /\ LET c == Unwrap(hc)
           trb == ring.mem[c.dequeue]
       IN  /\ TrbGetBit(trb, 96) = c.cycle
           /\ hc' = Some(IF TrbType(trb) = TYPE_LINK
                         THEN [dequeue |-> ((TrbGetPtr4(trb) - ring.buffer) \div SIZE_OF_TRB)
                                               % ring.len,
                               cycle |-> IF TrbGetBit(trb, 97) THEN ~c.cycle ELSE c.cycle,
                               consumed |-> c.consumed]
                         ELSE [dequeue |-> (c.dequeue + 1) % ring.len,
                               cycle |-> c.cycle,
                               consumed |-> c.consumed + 1])
    /\ UNCHANGED <<xhcVars, ringVars, evrVars, mouse, irq, boot, mem, amap, conv,
                   mainline, walk, pool>>

NextConsume == PushRing \/ PushTrbRing \/ HcConsume

SpecConsume == InitConsume /\ [][NextConsume]_vars

\* The slots that hold a TRB pushed and not consumed yet: those of the last
\* pushes, back from write_index.
PendingSlots ==
    {(ring.write_index + (ring.len - 1) * MaxPushes - k) % (ring.len - 1) :
        k \in 1..(pushes - Unwrap(hc).consumed)}

\* C34: no push writes its TRB into a slot whose TRB the controller has not
\* consumed yet, however far the pushes run ahead of the controller.
C34_PushKeepsPending ==
    [][pushes' = pushes + 1 => ring.write_index \notin PendingSlots]_vars

----------------------------------------------------------------------------
(* What control_in and control_out leave on the ring, in setup_stage_map and *)
(* in the doorbell register                                                  *)

\* The default control pipe ring and the device of the slot after the step.
ControlRingAfter(slot_id) == ControlRing([St EXCEPT !.devices = devices'], slot_id)

DeviceAfter(slot_id) == Unwrap(FindBySlot([St EXCEPT !.devices = devices'], slot_id))

\* The address of slot i of the ring r.
SlotAddress(r, i) == r.buffer + SIZE_OF_TRB * i

\* The keys of an ArrayMap.
KeysOf(m) == {Unwrap(m[i])[1] : i \in {k \in DOMAIN m : IsSome(m[k])}}

\* The step pushed a control transfer for the slot: its TRBs lie from the
\* slot that was next to be written on, carrying the ring's cycle bit, the
\* one of them that interrupts on completion is the data stage when there is
\* a buffer and the status stage otherwise, its address is the one key added
\* to setup_stage_map, mapped to the setup stage, and the slot's doorbell was
\* rung once, after the pushes, with the endpoint's address and stream id 0.
ControlTransferIssued(slot_id, with_data) ==
    LET r == ControlRing(St, slot_id)
        w == r.write_index
        n == IF with_data THEN 3 ELSE 2
        after == ControlRingAfter(slot_id)
        map == Unwrap(FindBySlot(St, slot_id)).setup_stage_map
        mapAfter == DeviceAfter(slot_id).setup_stage_map
        ioc == {i \in w..(w + n - 1) : TrbGetBit(after.mem[i], 101)}
    IN  /\ result' = Ok
        /\ after.write_index = w + n
        /\ \A i \in w..(w + n - 1) : TrbGetBit(after.mem[i], 96) = r.cycle_bit
        /\ TrbType(after.mem[w]) = TYPE_SETUP_STAGE
        /\ TrbType(after.mem[w + 1]) =
              IF with_data THEN TYPE_DATA_STAGE ELSE TYPE_STATUS_STAGE
        /\ with_data => TrbType(after.mem[w + 2]) = TYPE_STATUS_STAGE
        /\ ioc = {w + 1}
        /\ KeysOf(mapAfter) = KeysOf(map) \cup {SlotAddress(r, w + 1)}
        /\ SlotAddress(r, w + 1) \notin KeysOf(map)
        /\ ArrayMapGet(mapAfter, SlotAddress(r, w + 1)) = Some(SlotAddress(r, w))
        /\ \A key \in KeysOf(map) : ArrayMapGet(mapAfter, key) = ArrayMapGet(map, key)
        /\ doorbell'[slot_id] = [rings |-> doorbell[slot_id].rings + 1,
                                 target |-> DEFAULT_CONTROL_PIPE_ID,
                                 stream_id |-> 0]
        /\ \A other \in DOMAIN doorbell : other # slot_id => doorbell'[other] = doorbell[other]

\* C35: every control transfer control_in or control_out issues has all its
\* TRBs on the ring when the doorbell is rung, rings the doorbell once, with
\* target endpoint_id.address() and stream id 0, and records in
\* setup_stage_map the address of its one TRB that interrupts on completion
\* (the data stage with a buffer, the status stage without), mapped to its
\* setup stage, so that the completion event finds the entry.
C35_TransferOnRingBeforeDoorbell ==
    [][\A slot_id \in SlotIds, with_data \in BOOLEAN :
          /\ \A setup_data \in ControlInSetups :
                ControlInCalled(slot_id, setup_data, with_data)
                   => ControlTransferIssued(slot_id, with_data)
          /\ \A setup_data \in ControlOutSetups :
                ControlOutCalled(slot_id, setup_data, with_data)
                   => ControlTransferIssued(slot_id, with_data)]_vars

\* A device has a transfer with a data stage and one without outstanding:
\* setup_stage_map holds the address of a Data Stage TRB and that of a Status
\* Stage TRB of its ring.
C35_Witness ==
    \E slot_id \in SlotIds :
        /\ IsSome(FindBySlot(St, slot_id))
        /\ LET r == ControlRing(St, slot_id)
               keys == KeysOf(Unwrap(FindBySlot(St, slot_id)).setup_stage_map)
           IN  /\ \E i \in DOMAIN r.mem :
                     /\ TrbType(r.mem[i]) = TYPE_DATA_STAGE
                     /\ SlotAddress(r, i) \in keys
               /\ \E i \in DOMAIN r.mem :
                     /\ TrbType(r.mem[i]) = TYPE_STATUS_STAGE
                     /\ SlotAddress(r, i) \in keys
               /\ doorbell[slot_id].rings >= 2

\* The step pushed a control transfer without data stage for the slot: two
\* TRBs, a Setup Stage with transfer type 0 and a Status Stage with direction
\* IN that interrupts on completion, whose address setup_stage_map maps to
\* the Setup Stage.
NoDataTransferPushed(slot_id) ==
    LET r == ControlRing(St, slot_id)
        w == r.write_index
        after == ControlRingAfter(slot_id)
    IN  /\ after.write_index = w + 2
        /\ \A i \in DOMAIN r.mem : i \notin {w, w + 1} => after.mem[i] = r.mem[i]
        /\ TrbType(after.mem[w]) = TYPE_SETUP_STAGE
        /\ TrbGetBits(after.mem[w], 112, 2) = 0
        /\ TrbType(after.mem[w + 1]) = TYPE_STATUS_STAGE
        /\ TrbGetBit(after.mem[w + 1], 112)
        /\ TrbGetBit(after.mem[w + 1], 101)
        /\ ArrayMapGet(DeviceAfter(slot_id).setup_stage_map, SlotAddress(r, w + 1))
              = Some(SlotAddress(r, w))

\* C36: a control transfer issued without a buffer, by control_in or by
\* control_out, pushes exactly two TRBs: a Setup Stage with transfer type 0
\* and a Status Stage with direction IN and interrupt-on-completion set, and
\* maps the address of the Status Stage to the Setup Stage.
C36_NoDataTransfer ==
    [][\A slot_id \in SlotIds :
          /\ \A setup_data \in ControlInSetups :
                ControlInCalled(slot_id, setup_data, FALSE) => NoDataTransferPushed(slot_id)
          /\ \A setup_data \in ControlOutSetups :
                ControlOutCalled(slot_id, setup_data, FALSE)
                   => NoDataTransferPushed(slot_id)]_vars

----------------------------------------------------------------------------
(* Events that arrive in a phase that does not expect them *)

\* The TRB a CommandCompletionEvent points at, as on_command_completion_event
\* reads it.
IssuerOf(s, trb) ==
    IF RingInBuffer(s.command_ring, CommandCompletionTrbPointer(trb))
    THEN RingRead(s.command_ring, CommandCompletionTrbPointer(trb)) ELSE ZeroTrb

\* A PortStatusChangeEvent for a port that is neither NotConnected nor
\* ResettingPort.
UnexpectedPortStatusChange(s, trb) ==
    s.port_config_phase[PortStatusChangePortId(trb)]
        \notin {"NotConnected", "ResettingPort"}

\* A CommandCompletionEvent whose issuer is an EnableSlot, AddressDevice or
\* ConfigureEndpoint command while the port it is about (the addressing port,
\* or the port of the slot's device) is not in the phase that issued it, or
\* whose issuer is a TRB of any other type.
UnexpectedCommandCompletion(s, trb) ==
    LET type == TrbType(IssuerOf(s, trb))
        slot_id == CommandCompletionSlotId(trb)
    IN  \/ /\ type = TYPE_ENABLE_SLOT_COMMAND
           /\ ~(IsSome(s.addressing_port)
                /\ s.port_config_phase[Unwrap(s.addressing_port)] = "EnablingSlot")
        \/ /\ type = TYPE_ADDRESS_DEVICE_COMMAND
           /\ FindBySlot(s, slot_id) # None
           /\ s.port_config_phase[DevPortId(s, slot_id)] # "AddressingDevice"
        \/ /\ type = TYPE_CONFIGURE_ENDPOINT_COMMAND
           /\ FindBySlot(s, slot_id) # None
           /\ s.port_config_phase[DevPortId(s, slot_id)] # "ConfiguringEndpoints"
        \/ type \notin {TYPE_ENABLE_SLOT_COMMAND, TYPE_ADDRESS_DEVICE_COMMAND,
                        TYPE_CONFIGURE_ENDPOINT_COMMAND}

\* The handler returned InvalidPhase and left the phases, the addressing port
\* and the command ring as they were in s.
DroppedAsInvalidPhase(s, r) ==
    /\ r.result = Err("InvalidPhase")
    /\ r.port_config_phase = s.port_config_phase
    /\ r.addressing_port = s.addressing_port
    /\ r.command_ring = s.command_ring

\* The events process_event can dispatch in a state.
PortStatusChangeEvents == {HwPortStatusChangeEvent(port_id) : port_id \in Ports}
CommandCompletionEvents ==
    {HwCommandCompletionEvent(slot_id, command_ring.buffer + SIZE_OF_TRB * i) :
        slot_id \in SlotIds, i \in 0..MaxCmdIdx}

\* The configured-to-be mouse of InitHid, with the events of all kinds
\* process_event can dispatch for it and for the other ports.
NextUnexpected ==
    \/ OnPortStatusChangeEvent
    \/ OnCommandCompletionEvent
    \/ OnControlTransferEvent
    \/ OnInterruptTransferEvent

SpecUnexpected == InitHid /\ [][NextUnexpected]_vars

\* C37: an event that arrives in a phase that does not expect it (a
\* PortStatusChangeEvent for a port neither NotConnected nor ResettingPort; a
\* completion of EnableSlot, AddressDevice or ConfigureEndpoint whose port is
\* not in EnablingSlot, AddressingDevice or ConfiguringEndpoints; a completion
\* whose issuer is of any other type) returns InvalidPhase and leaves every
\* port's phase, addressing_port and the command ring unchanged.
C37_UnexpectedEventDropped ==
    \A enabled \in BOOLEAN :
       /\ \A trb \in PortStatusChangeEvents :
             UnexpectedPortStatusChange(St, trb)
                => DroppedAsInvalidPhase(St, OnPortStatusChangeEventOp(St, trb, enabled))
       /\ \A trb \in CommandCompletionEvents :
             UnexpectedCommandCompletion(St, trb)
                => DroppedAsInvalidPhase(St, OnCommandCompletionEventOp(St, trb, enabled))

\* A handler has returned InvalidPhase in a state where a PortStatusChangeEvent
\* and the completion of each of the three commands are unexpected: the mouse
\* is Configured and nothing is being addressed.
C37_Witness ==
    /\ result = Err("InvalidPhase")
    /\ \E trb \in PortStatusChangeEvents : UnexpectedPortStatusChange(St, trb)
    /\ \A type \in {TYPE_ENABLE_SLOT_COMMAND, TYPE_ADDRESS_DEVICE_COMMAND,
                    TYPE_CONFIGURE_ENDPOINT_COMMAND} :
          \E trb \in CommandCompletionEvents :
             /\ TrbType(IssuerOf(St, trb)) = type
             /\ UnexpectedCommandCompletion(St, trb)

----------------------------------------------------------------------------
(* usb/descriptor.rs and initialize_phase2: the walk of a configuration      *)
(* reply.  A device awaits its configuration descriptor; walk holds the      *)
(* reply the device sends, a DescriptorIter over it that is stepped apart,   *)
(* and whether the TransferEvent of the reply has been handled.              *)

ConfigurationHeader == <<9, 2, 34, 0, 1, 1, 0, 160, 50>>

\* A mouse whose interface declares two endpoints, cut behind the first.
TruncatedBytes == SubSeq(MouseTwoEndpointBytes, 1, 34)

\* A descriptor of a type specialize does not know before the interface.
UnsupportedTypeBytes ==
    ConfigurationHeader \o <<8, 11, 0, 1, 3, 1, 2, 0>> \o <<9, 4, 0, 0, 1, 3, 1, 2, 0>>
    \o <<7, 5, 129, 3, 4, 0, 10>>

\* An interface descriptor whose length byte is 0, and a configuration
\* descriptor whose length byte is 0.
ZeroLengthBytes ==
    ConfigurationHeader \o <<0, 4, 0, 0, 1, 3, 1, 2, 0>> \o <<7, 5, 129, 3, 4, 0, 10>>
ZeroLengthHeadBytes ==
    <<0, 2, 34, 0, 1, 1, 0, 160, 50>> \o <<9, 4, 0, 0, 1, 3, 1, 2, 0>>

WalkBuffers == {ConfigurationBytes, TruncatedBytes, UnsupportedTypeBytes,
                ZeroLengthBytes, ZeroLengthHeadBytes}

\* The lengths a TransferEvent reports for the reply.
WalkLens == {0, 9, 20, 34, 64}

MaxWalkItems == 5

InitWalk ==
    /\ \E p \in Ports : XhcIs(MousePhase2(p))
    /\ completed = {<<1, ControlSlot(St, 1, 1)>>}
    /\ NoRing /\ NoEventRing /\ NoMouse /\ NoIrq /\ NoBoot
    /\ mem = None /\ amap = None /\ conv = None /\ mainline = None
    /\ hc = None /\ pool = None
    /\ \E b \in WalkBuffers, len \in WalkLens :
          walk = Some([b |-> b, it |-> [len |-> len, offset |-> 0],
                       items |-> <<>>, handled |-> FALSE])

\* DescriptorIter::next on the iterator stepped apart; what it returns is
\* appended to items.
WalkNext ==
    /\ walk # None
    /\ Len(Unwrap(walk).items) < MaxWalkItems
    /\ LET w == Unwrap(walk)
           n == DescriptorIterNext(w.b, w.it)
       IN  walk' = Some([w EXCEPT !.it = n.it, !.items = Append(@, n.item)])
    /\ UNCHANGED <<xhcVars, ringVars, evrVars, mouse, irq, boot, mem, amap, conv,
                   mainline, hc, pool>>

\* process_event dispatches the TransferEvent of the Data Stage TRB of the
\* GET_DESCRIPTOR(Configuration) request: on_control_completed calls
\* initialize_phase2 with the reply and the length the event reports.
WalkPhase2 ==
    /\ walk # None
    /\ ~Unwrap(walk).handled
    /\ halted = "no"
    /\ LET w == Unwrap(walk)
       IN  /\ XhcBecomes(OnTransferEventOp(
                   St,
                   HwTransferEvent(1, DEFAULT_CONTROL_PIPE_ID, ControlSlot(St, 1, 4), 1,
                                   DATA_BUF_LEN - w.it.len),
                   w.b))
           /\ walk' = Some([w EXCEPT !.handled = TRUE])
    /\ completed' = completed \cup {<<1, ControlSlot(St, 1, 4)>>}
    /\ UNCHANGED <<ringVars, evrVars, mouse, irq, boot, mem, amap, conv,
                   mainline, hc, pool>>

NextWalk == WalkNext \/ WalkPhase2

SpecWalk == InitWalk /\ [][NextWalk]_vars

\* C38: the descriptor walk of init phase 2 terminates for every
\* configuration buffer and every reported length: also for a buffer that
\* ends before the interface's declared endpoints, for one with a descriptor
\* of unsupported type and for one with a length byte of 0, the handler of
\* the reply returns and the driver is not left spinning in a loop.
C38_WalkTerminates == halted # "hang"

\* The reply with an interface descriptor of length 0 has been handled with a
\* reported length that covers it, and the handler returned Ok.
C38_Witness ==
    /\ walk # None
    /\ Unwrap(walk).handled
    /\ Unwrap(walk).b \in {ZeroLengthBytes, TruncatedBytes, UnsupportedTypeBytes}
    /\ Unwrap(walk).it.len >= 34
    /\ result = Ok
    /\ halted = "no"

\* The offset the claim gives the i-th item: the sum of the length bytes of
\* the descriptors before it.
RECURSIVE SumOfLengths(_, _)
SumOfLengths(b, i) ==
    IF i = 1 THEN 0
    ELSE SumOfLengths(b, i - 1) + ByteAt(b, SumOfLengths(b, i - 1))

\* C39: DescriptorIter yields the descriptors of a buffer in order, each
\* once: the i-th item it returns is the descriptor that starts at the sum of
\* the length bytes of the i-1 descriptors before it, and it returns None
\* once that offset reaches the total length.
C39_YieldsInOrder ==
    walk # None =>
       LET w == Unwrap(walk)
       IN  \A i \in 1..Len(w.items) :
              w.items[i] = IF SumOfLengths(w.b, i) < w.it.len
                           THEN Some(DescriptorSpecialize(w.b, SumOfLengths(w.b, i)))
                           ELSE None

----------------------------------------------------------------------------
(* usb/mem.rs: the pool at the addresses the linker may give it.            *)
(* MEMORY_POOL is a static of elements with align(64): its address is a      *)
(* multiple of 64 and of nothing more.  pool holds the address, the pool     *)
(* offset and the region the last call of allocate returned.                 *)

\* Addresses of the pool: a multiple of 64 KiB, one of 4 KiB only, and two
\* that are 64 bytes off a multiple of 4 KiB.
PoolBases == {65536, 69632, 65600, 69568}

\* The requests of the driver, bytes and boundary, all with alignment 64:
\* the DCBAA, a device context, an input context and a page under the 4 KiB
\* boundary, a ring of 32 TRBs under the 64 KiB boundary.
PoolRequests ==
    {<<SIZE_OF_POINTER * (NUM_DEVICE_SLOTS + 1), 4096>>,
     <<SIZE_OF_DEVICE_CONTEXT, 4096>>, <<SIZE_OF_INPUT_CONTEXT, 4096>>,
     <<4096, 4096>>, <<32 * SIZE_OF_TRB, 65536>>}

MaxPoolAllocs == 4

InitPool ==
    /\ InitXhc
    /\ NoRing /\ NoEventRing /\ NoMouse /\ NoIrq /\ NoBoot
    /\ mem = None /\ amap = None /\ conv = None /\ mainline = None
    /\ hc = None /\ walk = None
    /\ \E base \in PoolBases :
          pool = Some([base |-> base, offset |-> 0, calls |-> 0, last |-> None])

\* allocate(bytes, Some(64), Some(boundary)): the pointer is the pool's
\* address plus the offset allocate chose.
PoolAllocate ==
    /\ pool # None
    /\ Unwrap(pool).calls < MaxPoolAllocs
    /\ \E rq \in PoolRequests :
          LET p == Unwrap(pool)
              a == Allocate(p.offset, rq[1], Some(64), Some(rq[2]))
          IN  /\ a.ok
              /\ pool' = Some([p EXCEPT
                                  !.offset = a.offset,
                                  !.calls = @ + 1,
                                  !.last = Some([addr |-> p.base + (a.ptr - POOL_BASE),
                                                 bytes |-> rq[1],
                                                 boundary |-> rq[2]])])
    /\ UNCHANGED <<xhcVars, ringVars, evrVars, mouse, irq, boot, mem, amap, conv,
                   mainline, hc, walk>>

NextPool == PoolAllocate

SpecPool == InitPool /\ [][NextPool]_vars

\* The bytes addr .. addr + bytes - 1 lie between two multiples of boundary.
WithinBoundary(addr, bytes, boundary) ==
    addr \div boundary = (addr + bytes - 1) \div boundary

\* C40: for every allocation with boundary B and bytes <= B, the absolute
\* address range of the returned region crosses no multiple of B, whatever
\* 64-byte aligned address the pool has.
C40_NoBoundaryCrossed ==
    (pool # None /\ Unwrap(pool).last # None) =>
       LET r == Unwrap(Unwrap(pool).last)
       IN  r.bytes <= r.boundary => WithinBoundary(r.addr, r.bytes, r.boundary)

====
